---- MODULE Spec2Model ----
(***************************************************************************)
(* Model of the MCP demo application: the backend managers and their      *)
(* check_connection probes, the cached ServerStatusManager status check,  *)
(* the sidebar status display, and the DirectQueryPage query console.     *)
(*                                                                         *)
(* Python strings are modelled as sequences of Unicode code points, so    *)
(* that strip(), split(), upper(), startswith(), slicing and the "in"     *)
(* substring test are computed the way the interpreter computes them.     *)
(***************************************************************************)
EXTENDS Integers, Sequences, FiniteSets, TLC

VARIABLES
    now,           \* the clock read by the st.cache_data TTL check
    ttlInclusive,  \* whether the installed cache keeps an entry at age = ttl
    cache,         \* the st.cache_data entry of check_all_servers
    pc,            \* position inside SidebarManager.render_server_status
    last,          \* record of the latest check_all_servers call
    shown,         \* what the sidebar displays: status list and count
    ex,            \* record of the latest DirectQueryPage execute
    answer,        \* what the backend answered to the latest execute
    mcall,         \* record of the latest manager call made on its own
    round,         \* progress of the check_all_servers loop, step by step
    backends,      \* how each backend behaves towards a connection attempt
    session,       \* st.session_state and what the latest script run did
    setup          \* the store and the record of the latest setup_test_data run

vars == <<now, ttlInclusive, cache, pc, last, shown, ex, answer, mcall, round, backends,
          session, setup>>

(***************************************************************************)
(* Bounds of the model                                                     *)
(***************************************************************************)
MaxTime == 40
TickStep == 10

(***************************************************************************)
(* Program constants                                                       *)
(***************************************************************************)
StatusTTL == 30
DetailMax == 50
HttpOK == 200

(***************************************************************************)
(* String helpers (code point sequences)                                   *)
(***************************************************************************)
Slice(s, n) == SubSeq(s, 1, IF Len(s) < n THEN Len(s) ELSE n)

Contains(hay, needle) ==
    \E i \in 0..(Len(hay) - Len(needle)) :
        SubSeq(hay, i + 1, i + Len(needle)) = needle

RECURSIVE Digits(_)
Digits(n) == IF n < 10 THEN <<48 + n>> ELSE Digits(n \div 10) \o <<48 + (n % 10)>>

GreenCircle == <<128994>>
StatusOK == <<128994, 32, 25509, 32154, 79, 75>>
StatusNG == <<128308, 32, 25509, 32154, 78, 71>>
DetailNormal == <<27491, 24120>>
StatusPrefix == <<83, 116, 97, 116, 117, 115, 58, 32>>
MsgRefused == <<67, 111, 110, 110, 101, 99, 116, 105, 111, 110, 32, 114, 101, 102, 117, 115, 101, 100>>

(***************************************************************************)
(* The managers and their probes                                           *)
(***************************************************************************)
Managers == <<"Redis", "PostgreSQL", "Elasticsearch", "Qdrant">>

Names == {Managers[i] : i \in DOMAIN Managers}

\* What a probe's single round trip can come back with: the call returns
\* (kind "ok"), the HTTP request returns a response with a status code
\* (kind "http"), or the call raises (kind "exc": refused, timed out, ...).
Returned == [kind |-> "ok", code |-> 0, msg |-> <<>>]
Http(c) == [kind |-> "http", code |-> c, msg |-> <<>>]
Raised(m) == [kind |-> "exc", code |-> 0, msg |-> m]

Failure(e) == [status |-> StatusNG, details |-> Slice(e.msg, DetailMax)]
Success == [status |-> StatusOK, details |-> DetailNormal]

RedisCheckConnection(r) ==
    IF r.kind = "exc" THEN Failure(r) ELSE Success

PostgreSQLCheckConnection(r) ==
    IF r.kind = "exc" THEN Failure(r) ELSE Success

HttpCheckConnection(r) ==
    IF r.kind = "exc" THEN Failure(r)
    ELSE IF r.code = HttpOK THEN Success
    ELSE [status |-> StatusNG, details |-> StatusPrefix \o Digits(r.code)]

ElasticsearchCheckConnection(r) == HttpCheckConnection(r)

QdrantCheckConnection(r) == HttpCheckConnection(r)

CheckConnection(name, r) ==
    CASE name = "Redis" -> RedisCheckConnection(r)
      [] name = "PostgreSQL" -> PostgreSQLCheckConnection(r)
      [] name = "Elasticsearch" -> ElasticsearchCheckConnection(r)
      [] name = "Qdrant" -> QdrantCheckConnection(r)

\* A status test that takes any non-empty status string for a connection.
HealthyIfAnyStatus(state) == state.status # <<>>

\* "green circle" in state["status"]
Healthy(state) == Contains(state.status, GreenCircle)

\* The answers the four backends can give to one round of probes.
SocketResponses == {Returned, Raised(MsgRefused)}
HttpResponses == {Http(200), Http(503), Raised(MsgRefused)}

ProbeResponses(name) ==
    IF name \in {"Redis", "PostgreSQL"} THEN SocketResponses ELSE HttpResponses

RoundResponses == {f \in [Names -> SocketResponses \cup HttpResponses] :
                      \A n \in Names : f[n] \in ProbeResponses(n)}

(***************************************************************************)
(* ServerStatusManager.check_all_servers and its st.cache_data(ttl=30)     *)
(***************************************************************************)
\* A loop in which a failed probe ends the round: the managers after it are
\* not probed and get no entry.
RECURSIVE CheckLoopStopsAtFailure(_, _, _)
CheckLoopStopsAtFailure(i, acc, resps) ==
    IF i > Len(Managers) THEN acc
    ELSE LET name == Managers[i]
             state == CheckConnection(name, resps[name])
         IN IF ~Healthy(state) THEN acc
            ELSE CheckLoopStopsAtFailure(i + 1,
                      [status |-> (name :> state) @@ acc.status,
                       calls |-> [acc.calls EXCEPT ![name] = @ + 1]],
                      resps)

\* The loop over self.managers.items(): one check_connection per manager,
\* in the order of the dictionary, each result stored under its name.
RECURSIVE CheckLoop(_, _, _)
CheckLoop(i, acc, resps) ==
    IF i > Len(Managers) THEN acc
    ELSE LET name == Managers[i]
             state == CheckConnection(name, resps[name])
         IN CheckLoop(i + 1,
                      [status |-> (name :> state) @@ acc.status,
                       calls |-> [acc.calls EXCEPT ![name] = @ + 1]],
                      resps)

NoCalls == [n \in Names |-> 0]

CheckAllServersBody(resps) ==
    CheckLoop(1, [status |-> <<>>, calls |-> NoCalls], resps)

NoEntry == [present |-> FALSE, value |-> <<>>, created |-> 0]

\* A cache whose entries never expire.
FreshForever(entry, t) == TRUE

\* A cache that never serves an entry.
FreshNever(entry, t) == FALSE

\* The TTL test of the cache: an entry younger than ttl is served, an older
\* one is not; at age = ttl the installed cache library decides.
Fresh(entry, t) ==
    \/ t < entry.created + StatusTTL
    \/ ttlInclusive /\ t = entry.created + StatusTTL

Valid(entry, t) == entry.present /\ Fresh(entry, t)

\* One call of the cached function at time t; resps are the answers the
\* backends would give if probed.
CheckAllServers(c, t, resps) ==
    IF Valid(c, t)
    THEN [ret |-> c.value, cache |-> c, probed |-> FALSE,
          calls |-> NoCalls, inputs |-> <<>>]
    ELSE LET run == CheckAllServersBody(resps)
         IN [ret |-> run.status,
             cache |-> [present |-> TRUE, value |-> run.status, created |-> t],
             probed |-> TRUE, calls |-> run.calls, inputs |-> resps]

\* A refresh button that leaves the cache as it is.
CacheClearKeeps(c) == c

\* st.cache_data.clear()
CacheClear(c) == NoEntry

\* A count of all the entries, connected or not.
ConnectedCountOfAll(status) == Cardinality(DOMAIN status)

RECURSIVE SumGreen(_, _)
SumGreen(status, names) ==
    IF names = {} THEN 0
    ELSE LET n == CHOOSE x \in names : TRUE
         IN (IF Healthy(status[n]) THEN 1 ELSE 0) + SumGreen(status, names \ {n})

\* sum(1 for s in status.values() if "green circle" in s["status"])
ConnectedCount(status) == SumGreen(status, DOMAIN status)

\* What is recorded of one call: when it was made, whether the refresh button
\* preceded it, the entry the cache held before (found), whether the probes
\* ran and how often each manager was probed, the answers they got, the
\* snapshot returned, the creation time of the entry it is served from, and
\* whether the snapshot differs from the one held before.
CallRecord(r, t, forced, before) ==
    [op |-> "status", t |-> t, forced |-> forced,
     found |-> [present |-> before.present, created |-> before.created],
     probed |-> r.probed, calls |-> r.calls, inputs |-> r.inputs,
     ret |-> r.ret, created |-> r.cache.created,
     replaced |-> before.present /\ r.ret # before.value]

NoCall == [op |-> "none", t |-> 0, forced |-> FALSE,
           found |-> [present |-> FALSE, created |-> 0],
           probed |-> FALSE, calls |-> NoCalls, inputs |-> <<>>,
           ret |-> <<>>, created |-> 0, replaced |-> FALSE]

NoExec == [op |-> "none"]

NoCount == 0 - 1

NoAnswer == [kind |-> "none"]

NoManagerCall == [op |-> "none"]

\* The check_all_servers loop before it is entered.
NoRound == [i |-> 0, inflight |-> {}, phase |-> "none", waited |-> 0, status |-> <<>>]

NoBackends == <<>>

\* Before the first script run: st.session_state is empty.
NoSession == [started |-> FALSE]

\* Before setup_test_data is run.
NoSetup == [op |-> "none"]

(***************************************************************************)
(* Actions of the status display                                           *)
(***************************************************************************)
Tick(d) ==
    /\ now + d <= MaxTime
    /\ now' = now + d
    /\ UNCHANGED <<ttlInclusive, cache, pc, last, shown, ex, answer, mcall, round, backends, session, setup>>

\* SidebarManager.render_server_status up to the status list: the refresh
\* button clears the cache, then the status is requested and displayed.
RenderServerStatus(button, resps) ==
    /\ pc = "idle"
    /\ LET c == IF button THEN CacheClear(cache) ELSE cache
           r == CheckAllServers(c, now, resps)
       IN /\ cache' = r.cache
          /\ last' = CallRecord(r, now, button, cache)
          /\ shown' = [status |-> r.ret, count |-> NoCount]
    /\ pc' = "count"
    /\ UNCHANGED <<now, ttlInclusive, ex, answer, mcall, round, backends, session, setup>>

\* The rest of render_server_status: get_connected_count requests the
\* status again and counts the connected servers, which are displayed.
GetConnectedCount(resps) ==
    /\ pc = "count"
    /\ LET r == CheckAllServers(cache, now, resps)
       IN /\ cache' = r.cache
          /\ last' = CallRecord(r, now, FALSE, cache)
          /\ shown' = [shown EXCEPT !.count = ConnectedCount(r.ret)]
    /\ pc' = "idle"
    /\ UNCHANGED <<now, ttlInclusive, ex, answer, mcall, round, backends, session, setup>>

Init ==
    /\ now = 0
    /\ ttlInclusive \in BOOLEAN
    /\ cache = NoEntry
    /\ pc = "idle"
    /\ last = NoCall
    /\ shown = [status |-> <<>>, count |-> NoCount]
    /\ ex = NoExec
    /\ answer = NoAnswer
    /\ mcall = NoManagerCall
    /\ round = NoRound
    /\ backends = NoBackends
    /\ session = NoSession
    /\ setup = NoSetup

Next ==
    \/ \E d \in {TickStep, StatusTTL} : Tick(d)
    \/ \E button \in BOOLEAN, resps \in RoundResponses : RenderServerStatus(button, resps)
    \/ \E resps \in RoundResponses : GetConnectedCount(resps)

Spec == Init /\ [][Next]_vars

(***************************************************************************)
(* Python string operations used by the query console                      *)
(***************************************************************************)
Whitespace == {32, 9, 10, 13, 11, 12}

RECURSIVE LStrip(_)
LStrip(s) == IF s # <<>> /\ Head(s) \in Whitespace THEN LStrip(Tail(s)) ELSE s

RECURSIVE RStrip(_)
RStrip(s) ==
    IF s # <<>> /\ s[Len(s)] \in Whitespace THEN RStrip(SubSeq(s, 1, Len(s) - 1)) ELSE s

\* str.strip()
Strip(s) == RStrip(LStrip(s))

UpperChar(c) == IF c >= 97 /\ c <= 122 THEN c - 32 ELSE c

\* str.upper() on ASCII text
Upper(s) == [i \in DOMAIN s |-> UpperChar(s[i])]

\* str.startswith(prefix)
StartsWith(s, prefix) ==
    Len(s) >= Len(prefix) /\ SubSeq(s, 1, Len(prefix)) = prefix

\* str.split(): the maximal runs of non-whitespace, in order
RECURSIVE SplitFrom(_, _, _)
SplitFrom(s, cur, acc) ==
    IF s = <<>> THEN (IF cur = <<>> THEN acc ELSE Append(acc, cur))
    ELSE IF Head(s) \in Whitespace
         THEN SplitFrom(Tail(s), <<>>, IF cur = <<>> THEN acc ELSE Append(acc, cur))
         ELSE SplitFrom(Tail(s), Append(cur, Head(s)), acc)

Split(s) == SplitFrom(s, <<>>, <<>>)

IsDigits(s) == s # <<>> /\ \A i \in DOMAIN s : s[i] >= 48 /\ s[i] <= 57

\* A conversion that takes every token for an integer.
IsIntAnything(tok) == TRUE

\* Whether int(tok) succeeds: an optional sign and decimal digits.
IsInt(tok) ==
    /\ tok # <<>>
    /\ IF tok[1] \in {43, 45} THEN IsDigits(Tail(tok)) ELSE IsDigits(tok)

RECURSIVE DigitsValue(_)
DigitsValue(s) ==
    IF s = <<>> THEN 0 ELSE 10 * DigitsValue(SubSeq(s, 1, Len(s) - 1)) + (s[Len(s)] - 48)

\* int(tok) for a token that IsInt accepts
ParseInt(tok) ==
    IF tok[1] = 45 THEN 0 - DigitsValue(Tail(tok))
    ELSE IF tok[1] = 43 THEN DigitsValue(Tail(tok))
    ELSE DigitsValue(tok)

\* Python's order on str: lexicographic by code point
StrLess(a, b) ==
    LET m == IF Len(a) < Len(b) THEN Len(a) ELSE Len(b)
        diffs == {i \in 1..m : a[i] # b[i]}
    IN IF diffs = {} THEN Len(a) < Len(b)
       ELSE LET i == CHOOSE j \in diffs : \A k \in diffs : j <= k
            IN a[i] < b[i]

RECURSIVE InsertSorted(_, _)
InsertSorted(x, s) ==
    IF s = <<>> THEN <<x>>
    ELSE IF StrLess(Head(s), x) THEN <<Head(s)>> \o InsertSorted(x, Tail(s))
    ELSE <<x>> \o s

\* A result handed on in the order the server gave it.
SortedAsGiven(s) == s

\* sorted(list of str)
RECURSIVE Sorted(_)
Sorted(s) == IF s = <<>> THEN <<>> ELSE InsertSorted(Head(s), Sorted(Tail(s)))

(***************************************************************************)
(* Python values returned by the Redis client (decode_responses=True)      *)
(***************************************************************************)
PyNone == [type |-> "NoneType", val |-> <<>>]
PyStr(s) == [type |-> "str", val |-> s]
PyList(items) == [type |-> "list", val |-> items]
PyDict(pairs) == [type |-> "dict", val |-> pairs]

Quoted(s) == <<39>> \o s \o <<39>>

RECURSIVE ReprPairs(_)
ReprPairs(pairs) ==
    IF pairs = <<>> THEN <<>>
    ELSE Quoted(pairs[1][1]) \o <<58, 32>> \o Quoted(pairs[1][2])
         \o (IF Len(pairs) > 1 THEN <<44, 32>> ELSE <<>>) \o ReprPairs(Tail(pairs))

\* str(result) for the values st.code is given: a str is itself, a dict of
\* str its repr.
PyStrOf(v) ==
    IF v.type = "str" THEN v.val ELSE <<123>> \o ReprPairs(v.val) \o <<125>>

(***************************************************************************)
(* DirectQueryPage: the Redis console                                      *)
(***************************************************************************)
VerbKEYS == <<75, 69, 89, 83>>
VerbGET == <<71, 69, 84>>
VerbHGETALL == <<72, 71, 69, 84, 65, 76, 76>>
VerbSMEMBERS == <<83, 77, 69, 77, 66, 69, 82, 83>>
VerbLRANGE == <<76, 82, 65, 78, 71, 69>>
Star == <<42>>

\* One element written to the page: the streamlit function, what the
\* message is about, and its payload.
Ui(fn, kind, val) == [fn |-> fn, kind |-> kind, val |-> val]

Call(op, args) == [op |-> op, args |-> args]

Raises(exc, calls, out) ==
    [raised |-> TRUE, exc |-> exc, ret |-> PyNone, calls |-> calls, out |-> out]
Returns(v, calls, out) ==
    [raised |-> FALSE, exc |-> "", ret |-> v, calls |-> calls, out |-> out]

\* A client call: the server's reply, or the error the client raises.
ClientCall(server, call, reply) ==
    IF server.fail THEN Raises("RedisError", <<call>>, <<>>)
    ELSE Returns(reply, <<call>>, <<>>)

\* DirectQueryPage._execute_redis_command
ExecuteRedisCommand(command, server) ==
    LET cmd_parts == Split(Strip(command))
    IN IF cmd_parts = <<>> THEN Raises("IndexError", <<>>, <<>>)
       ELSE
       LET cmd == Upper(cmd_parts[1])
           n == Len(cmd_parts)
       IN CASE cmd = VerbKEYS ->
                 LET pattern == IF n > 1 THEN cmd_parts[2] ELSE Star
                     r == ClientCall(server, Call("keys", <<pattern>>), PyList(server.keys))
                 IN IF r.raised THEN r ELSE Returns(PyList(Sorted(r.ret.val)), r.calls, <<>>)
            [] cmd = VerbGET ->
                 IF n > 1
                 THEN ClientCall(server, Call("get", <<cmd_parts[2]>>), server.get)
                 ELSE Returns(PyNone, <<>>, <<Ui("error", "usage", cmd)>>)
            [] cmd = VerbHGETALL ->
                 IF n > 1
                 THEN ClientCall(server, Call("hgetall", <<cmd_parts[2]>>), PyDict(server.hgetall))
                 ELSE Returns(PyNone, <<>>, <<Ui("error", "usage", cmd)>>)
            [] cmd = VerbSMEMBERS ->
                 IF n > 1
                 THEN LET r == ClientCall(server, Call("smembers", <<cmd_parts[2]>>),
                                          PyList(server.smembers))
                      IN IF r.raised THEN r
                         ELSE Returns(PyList(Sorted(r.ret.val)), r.calls, <<>>)
                 ELSE Returns(PyNone, <<>>, <<Ui("error", "usage", cmd)>>)
            [] cmd = VerbLRANGE ->
                 IF n >= 4
                 THEN IF ~IsInt(cmd_parts[3]) \/ ~IsInt(cmd_parts[4])
                      THEN Raises("ValueError", <<>>, <<>>)
                      ELSE ClientCall(server,
                                      Call("lrange", <<cmd_parts[2], ParseInt(cmd_parts[3]),
                                                       ParseInt(cmd_parts[4])>>),
                                      PyList(server.lrange))
                 ELSE Returns(PyNone, <<>>, <<Ui("error", "usage", cmd)>>)
            [] OTHER ->
                 Returns(PyNone, <<>>, <<Ui("error", "unsupported", cmd),
                                         Ui("info", "supported", <<>>)>>)

\* A lookup that falls back to the first manager for an unknown name.
GetManagerWithDefault(name) ==
    IF name \in Names THEN [found |-> TRUE, manager |-> name]
    ELSE [found |-> TRUE, manager |-> Managers[1]]

\* ServerStatusManager.get_manager: self.managers.get(name)
GetManager(name) ==
    IF name \in Names THEN [found |-> TRUE, manager |-> name]
    ELSE [found |-> FALSE, manager |-> "None"]

\* What is recorded of one run of the page: the query type, the input, the
\* managers probed and the status the probe returned, the branch taken,
\* the calls issued to the backend and what was written to the page.
Query(page, input, probes, status, healthy, calls, out) ==
    [op |-> "query", page |-> page, input |-> input, probes |-> probes,
     status |-> status, healthy |-> healthy, calls |-> calls, out |-> out]

NoStatus == [status |-> <<>>, details |-> <<>>]

Unavailable(page) == Ui("warning", "unavailable", page)

\* A handler that takes the backend's status from the status cache when the
\* cache holds a snapshot, and probes only when it holds none.
RenderRedisQueryFromCache(redis_command, probe, server) ==
    LET status == IF cache.present THEN cache.value["Redis"]
                  ELSE CheckConnection("Redis", probe)
        probes == IF cache.present THEN <<>> ELSE <<"Redis">>
        r == ExecuteRedisCommand(redis_command, server)
    IN IF Healthy(status)
       THEN Query("Redis", redis_command, probes, status, TRUE, r.calls, r.out)
       ELSE Query("Redis", redis_command, probes, status, FALSE, <<>>,
                  <<Unavailable("Redis")>>)

\* DirectQueryPage._render_redis_query with the execute button pressed
RenderRedisQuery(redis_command, probe, server) ==
    LET redis_manager == GetManager("Redis").manager
        status == CheckConnection(redis_manager, probe)
    IN IF Healthy(status)
       THEN LET r == ExecuteRedisCommand(redis_command, server)
                shown_result ==
                    IF r.raised THEN <<Ui("error", "exception", r.exc)>>
                    ELSE IF r.ret # PyNone
                         THEN IF r.ret.type = "list"
                              THEN <<Ui("json", "result", r.ret.val)>>
                              ELSE <<Ui("code", "result", PyStrOf(r.ret))>>
                         ELSE <<>>
            IN Query("Redis", redis_command, <<redis_manager>>, status, TRUE, r.calls,
                     r.out \o shown_result)
       ELSE Query("Redis", redis_command, <<redis_manager>>, status, FALSE, <<>>,
                  <<Unavailable("Redis")>>)

\* Commands typed into the console.
RedisCommands == {
    <<75, 69, 89, 83, 32, 42>>,  \* 'KEYS *'
    <<107, 101, 121, 115>>,  \* 'keys'
    <<71, 69, 84, 32, 107>>,  \* 'GET k'
    <<32, 32, 103, 101, 116, 32, 107, 32>>,  \* '  get k '
    <<71, 69, 84>>,  \* 'GET'
    <<72, 71, 69, 84, 65, 76, 76, 32, 104>>,  \* 'HGETALL h'
    <<72, 71, 69, 84, 65, 76, 76>>,  \* 'HGETALL'
    <<83, 77, 69, 77, 66, 69, 82, 83, 32, 99, 97, 116, 101, 103, 111, 114, 105, 101, 115, 58, 97, 108, 108>>,  \* 'SMEMBERS categories:all'
    <<83, 77, 69, 77, 66, 69, 82, 83>>,  \* 'SMEMBERS'
    <<76, 82, 65, 78, 71, 69, 32, 108, 32, 48, 32, 45, 49>>,  \* 'LRANGE l 0 -1'
    <<76, 82, 65, 78, 71, 69, 32, 108, 32, 48>>,  \* 'LRANGE l 0'
    <<76, 82, 65, 78, 71, 69, 32, 108, 32, 97, 32, 98>>,  \* 'LRANGE l a b'
    <<68, 69, 76, 32, 107>>,  \* 'DEL k'
    <<70, 76, 85, 83, 72, 65, 76, 76>>,  \* 'FLUSHALL'
    <<71, 69, 84, 88, 32, 107>>,  \* 'GETX k'
    <<>>,  \* ''
    <<32>>  \* ' '
}

Sports == <<83, 112, 111, 114, 116, 115>>
Books == <<66, 111, 111, 107, 115>>

RedisServer(fail, keys, get, hgetall, smembers, lrange) ==
    [fail |-> fail, keys |-> keys, get |-> get, hgetall |-> hgetall,
     smembers |-> smembers, lrange |-> lrange]

\* What the Redis server answers: a populated store (set members in either
\* iteration order), an empty store, and a server that fails the command.
RedisServers == {
    RedisServer(FALSE, <<<<107>>, <<104>>>>, PyStr(<<118>>),
                <<<<<<102>>, <<49>>>>>>, <<Sports, Books>>, <<Sports, Books>>),
    RedisServer(FALSE, <<<<104>>, <<107>>>>, PyStr(<<118>>),
                <<<<<<102>>, <<49>>>>>>, <<Books, Sports>>, <<Books>>),
    RedisServer(FALSE, <<>>, PyNone, <<>>, <<>>, <<>>),
    RedisServer(TRUE, <<>>, PyNone, <<>>, <<>>, <<>>)
}

(***************************************************************************)
(* DirectQueryPage: the PostgreSQL console                                 *)
(***************************************************************************)
VerbSELECT == <<83, 69, 76, 69, 67, 84>>

\* A statement test that lets every statement through.
IsSelectGateOff(sql_query) == TRUE

\* sql_query.strip().upper().startswith('SELECT')
IsSelect(sql_query) == StartsWith(Upper(Strip(sql_query)), VerbSELECT)

\* DirectQueryPage._render_postgresql_query with the execute button pressed.
\* db.env: whether PG_CONN_STR is in the environment for create_engine;
\* db.kind: read_sql returns db.rows rows ("rows") or raises ("exc").
RenderPostgresqlQuery(sql_query, probe, db) ==
    LET pg_manager == GetManager("PostgreSQL").manager
        status == CheckConnection(pg_manager, probe)
    IN IF Healthy(status)
       THEN IF ~IsSelect(sql_query)
            THEN Query("PostgreSQL", sql_query, <<pg_manager>>, status, TRUE, <<>>,
                       <<Ui("error", "select_only", <<>>)>>)
            ELSE IF ~db.env
            THEN Query("PostgreSQL", sql_query, <<pg_manager>>, status, TRUE, <<>>,
                       <<Ui("error", "exception", "ArgumentError")>>)
            ELSE IF db.kind = "exc"
            THEN Query("PostgreSQL", sql_query, <<pg_manager>>, status, TRUE,
                       <<Call("read_sql", <<sql_query>>)>>,
                       <<Ui("error", "exception", "DatabaseError")>>)
            ELSE IF db.rows > 0
            THEN Query("PostgreSQL", sql_query, <<pg_manager>>, status, TRUE,
                       <<Call("read_sql", <<sql_query>>)>>,
                       <<Ui("dataframe", "result", db.rows),
                         Ui("download_button", "csv", db.rows)>>)
            ELSE Query("PostgreSQL", sql_query, <<pg_manager>>, status, TRUE,
                       <<Call("read_sql", <<sql_query>>)>>,
                       <<Ui("info", "empty", 0)>>)
       ELSE Query("PostgreSQL", sql_query, <<pg_manager>>, status, FALSE, <<>>,
                  <<Unavailable("PostgreSQL")>>)

\* Statements typed into the console.
SqlQueries == {
    <<83, 69, 76, 69, 67, 84, 32, 42, 32, 70, 82, 79, 77, 32, 99, 117, 115, 116, 111, 109, 101, 114, 115, 32, 76, 73, 77, 73, 84, 32, 53, 59>>,  \* 'SELECT * FROM customers LIMIT 5;'
    <<115, 101, 108, 101, 99, 116, 32, 49>>,  \* 'select 1'
    <<32, 32, 83, 101, 108, 101, 99, 116, 32, 49>>,  \* '  Select 1'
    <<68, 69, 76, 69, 84, 69, 32, 70, 82, 79, 77, 32, 99, 117, 115, 116, 111, 109, 101, 114, 115>>,  \* 'DELETE FROM customers'
    <<83, 69, 76, 69, 67, 84, 88, 32, 49>>,  \* 'SELECTX 1'
    <<73, 78, 83, 69, 82, 84, 32, 73, 78, 84, 79, 32, 116, 32, 86, 65, 76, 85, 69, 83, 32, 40, 49, 41>>,  \* 'INSERT INTO t VALUES (1)'
    <<87, 73, 84, 72, 32, 120, 32, 65, 83, 32, 40, 83, 69, 76, 69, 67, 84, 32, 49, 41, 32, 83, 69, 76, 69, 67, 84, 32, 49>>,  \* 'WITH x AS (SELECT 1) SELECT 1'
    <<40, 83, 69, 76, 69, 67, 84, 32, 49, 41>>,  \* '(SELECT 1)'
    <<>>  \* ''
}

Database(env, kind, rows) == [env |-> env, kind |-> kind, rows |-> rows]

Databases == {Database(TRUE, "rows", 2), Database(TRUE, "rows", 0),
              Database(TRUE, "exc", 0), Database(FALSE, "rows", 0)}

(***************************************************************************)
(* DirectQueryPage: the Elasticsearch console                              *)
(***************************************************************************)
\* The first option of the field select box ("all fields").
AllFields == "all_fields"

SearchFields == <<AllFields, "title", "content", "category", "author">>

\* A search that refuses a field outside the select box's options.
SearchArticlesValidating(term, field, es) ==
    [hits |-> 0, calls |-> <<>>, out |-> <<Ui("error", "search_exception", "ValueError")>>]

\* ElasticsearchManager.search_articles.  es.kind: the POST raises ("exc")
\* or returns a response ("http") with es.code; es.body: whether the body
\* has hits.hits; es.hits: how many hits; es.full: whether each hit has the
\* fields the page reads.
SearchArticles(term, field, es) ==
    LET query == IF field = AllFields
                 THEN [kind |-> "multi_match", term |-> term,
                       fields |-> <<"title^2", "content", "category", "author">>,
                       highlight |-> <<"title", "content">>]
                 ELSE [kind |-> "match", term |-> term, fields |-> <<field>>,
                       highlight |-> <<field>>]
        call == Call("search", <<query>>)
    IN IF es.kind = "exc"
       THEN [hits |-> 0, calls |-> <<call>>, out |-> <<Ui("error", "search_exception", "RequestException")>>]
       ELSE IF es.code = HttpOK
            THEN IF es.body
                 THEN [hits |-> es.hits, calls |-> <<call>>, out |-> <<>>]
                 ELSE [hits |-> 0, calls |-> <<call>>,
                       out |-> <<Ui("error", "search_exception", "KeyError")>>]
            ELSE [hits |-> 0, calls |-> <<call>>, out |-> <<>>]

\* DirectQueryPage._render_elasticsearch_query with the button pressed
RenderElasticsearchQuery(input, probe, es) ==
    LET es_manager == GetManager("Elasticsearch").manager
        status == CheckConnection(es_manager, probe)
    IN IF Healthy(status)
       THEN LET r == SearchArticles(input.term, input.field, es)
            IN IF r.hits > 0
               THEN Query("Elasticsearch", input, <<es_manager>>, status, TRUE, r.calls,
                          r.out \o <<Ui("success", "found", r.hits)>>
                          \o (IF es.full THEN <<Ui("expander", "result", r.hits)>>
                              ELSE <<Ui("uncaught", "exception", "KeyError")>>))
               ELSE Query("Elasticsearch", input, <<es_manager>>, status, TRUE, r.calls,
                          r.out \o <<Ui("info", "empty", input.term)>>)
       ELSE Query("Elasticsearch", input, <<es_manager>>, status, FALSE, <<>>,
                  <<Unavailable("Elasticsearch")>>)

SearchInputs == {[term |-> tm, field |-> SearchFields[i]] :
                    tm \in {"Python", ""}, i \in DOMAIN SearchFields}

SearchReply(kind, code, body, hits, full) ==
    [kind |-> kind, code |-> code, body |-> body, hits |-> hits, full |-> full]

SearchReplies == {SearchReply("http", 200, TRUE, 2, TRUE),
                  SearchReply("http", 200, TRUE, 0, TRUE),
                  SearchReply("http", 200, TRUE, 1, FALSE),
                  SearchReply("http", 200, FALSE, 0, TRUE),
                  SearchReply("http", 400, FALSE, 0, TRUE),
                  SearchReply("exc", 0, FALSE, 0, TRUE)}

(***************************************************************************)
(* DirectQueryPage: the Qdrant console                                     *)
(***************************************************************************)
\* The first option of the category select box ("all").
AllCategories == "all_categories"

\* The search request built from the widgets.
SearchRequest(input) ==
    LET category == IF input.category # AllCategories
                    THEN <<[key |-> "category", op |-> "match", value |-> input.category]>>
                    ELSE <<>>
        filter_conditions ==
            category \o <<[key |-> "price", op |-> "gte", value |-> input.price[1]],
                          [key |-> "price", op |-> "lte", value |-> input.price[2]]>>
    IN [must |-> filter_conditions, limit |-> input.limit, with_payload |-> TRUE]

\* DirectQueryPage._render_qdrant_query with the button pressed.  q.kind:
\* the POST raises ("exc") or returns a response ("http") with q.code;
\* q.points: the number of points under "result"; q.full: whether each
\* point carries the payload the page reads.
RenderQdrantQuery(input, probe, q) ==
    LET qdrant_manager == GetManager("Qdrant").manager
        status == CheckConnection(qdrant_manager, probe)
        call == Call("points_search", <<SearchRequest(input)>>)
    IN IF Healthy(status)
       THEN IF q.kind = "exc"
            THEN Query("Qdrant", input, <<qdrant_manager>>, status, TRUE, <<call>>,
                       <<Ui("error", "exception", "RequestException")>>)
            ELSE IF q.code = HttpOK
            THEN IF q.points > 0
                 THEN Query("Qdrant", input, <<qdrant_manager>>, status, TRUE, <<call>>,
                            <<Ui("success", "found", q.points)>>
                            \o (IF q.full
                                THEN <<Ui("dataframe", "result", q.points),
                                       Ui("expander", "result", q.points)>>
                                ELSE <<Ui("error", "exception", "KeyError")>>))
                 ELSE Query("Qdrant", input, <<qdrant_manager>>, status, TRUE, <<call>>,
                            <<Ui("info", "empty", 0)>>)
            ELSE Query("Qdrant", input, <<qdrant_manager>>, status, TRUE, <<call>>,
                       <<Ui("error", "search_failed", q.code)>>)
       ELSE Query("Qdrant", input, <<qdrant_manager>>, status, FALSE, <<>>,
                  <<Unavailable("Qdrant")>>)

VectorInputs == {[category |-> c, price |-> pr, limit |-> l] :
                    c \in {AllCategories, "sports"},
                    pr \in {<<0, 100000>>, <<1000, 5000>>},
                    l \in {1, 20}}

VectorReply(kind, code, points, full) ==
    [kind |-> kind, code |-> code, points |-> points, full |-> full]

VectorReplies == {VectorReply("http", 200, 2, TRUE), VectorReply("http", 200, 0, TRUE),
                  VectorReply("http", 200, 1, FALSE), VectorReply("http", 404, 0, TRUE),
                  VectorReply("exc", 0, 0, TRUE)}

(***************************************************************************)
(* DirectQueryPage.render and the actions of the query console             *)
(***************************************************************************)
\* The if/elif chain over the selected query type.
DirectQueryRender(query_type, input, probe, reply) ==
    IF query_type = "Redis" THEN RenderRedisQuery(input, probe, reply)
    ELSE IF query_type = "PostgreSQL" THEN RenderPostgresqlQuery(input, probe, reply)
    ELSE IF query_type = "Elasticsearch" THEN RenderElasticsearchQuery(input, probe, reply)
    ELSE IF query_type = "Qdrant" THEN RenderQdrantQuery(input, probe, reply)
    ELSE Query(query_type, input, <<>>, NoStatus, FALSE, <<>>, <<>>)

\* Names that no manager is registered under.
OtherNames == {"MongoDB", "redis", ""}

\* An execute that empties the status cache.
StatusUnchangedButCache ==
    /\ cache' = NoEntry
    /\ UNCHANGED <<now, ttlInclusive, pc, last, shown, mcall, round, backends, session, setup>>

StatusUnchanged == UNCHANGED <<now, ttlInclusive, cache, pc, last, shown, mcall, round, backends, session, setup>>

ExecRedis(command, probe, server) ==
    /\ ex' = DirectQueryRender("Redis", command, probe, server)
    /\ answer' = server
    /\ StatusUnchanged

ExecPostgreSQL(sql_query, probe, db) ==
    /\ ex' = DirectQueryRender("PostgreSQL", sql_query, probe, db)
    /\ answer' = db
    /\ StatusUnchanged

ExecElasticsearch(input, probe, es) ==
    /\ ex' = DirectQueryRender("Elasticsearch", input, probe, es)
    /\ answer' = es
    /\ StatusUnchanged

ExecQdrant(input, probe, q) ==
    /\ ex' = DirectQueryRender("Qdrant", input, probe, q)
    /\ answer' = q
    /\ StatusUnchanged

\* The page rendered for a query type that is none of the four.
ExecOther(query_type, probe) ==
    /\ ex' = DirectQueryRender(query_type, <<>>, probe, <<>>)
    /\ answer' = NoAnswer
    /\ StatusUnchanged

\* A call of get_manager by name.
LookupManager(name) ==
    /\ ex' = [op |-> "get_manager", name |-> name, result |-> GetManager(name)]
    /\ answer' = NoAnswer
    /\ StatusUnchanged

NextGate ==
    \/ \E c \in RedisCommands, p \in SocketResponses, sv \in RedisServers : ExecRedis(c, p, sv)
    \/ \E sq \in SqlQueries, p \in SocketResponses, db \in Databases : ExecPostgreSQL(sq, p, db)
    \/ \E i \in SearchInputs, p \in HttpResponses, es \in SearchReplies : ExecElasticsearch(i, p, es)
    \/ \E i \in VectorInputs, p \in HttpResponses, q \in VectorReplies : ExecQdrant(i, p, q)
    \/ \E n \in OtherNames, p \in HttpResponses : ExecOther(n, p)
    \/ \E n \in Names \cup OtherNames : LookupManager(n)

SpecGate == Init /\ [][NextGate]_vars

(***************************************************************************)
(* Properties of the query console (checked under SpecGate)                *)
(***************************************************************************)
\* How the page's messages read as outcomes of an execute.
Rejected(q) ==
    \E i \in DOMAIN q.out :
        q.out[i].fn = "error" /\ q.out[i].kind \in {"unsupported", "usage", "select_only"}

ReportsUnavailable(q) == q.out = <<Unavailable(q.page)>>

ReportsError(q) == \E i \in DOMAIN q.out : q.out[i].fn \in {"error", "warning", "uncaught"}

ProbeSaysDown(q) == ~Contains(q.status.status, GreenCircle)

AllowList(page) ==
    IF page = "Redis" THEN {VerbKEYS, VerbGET, VerbHGETALL, VerbSMEMBERS, VerbLRANGE}
    ELSE {VerbSELECT}

Tokens(q) == Split(q.input)

FirstTokenDisallowed(q) ==
    /\ q.op = "query"
    /\ q.page \in {"Redis", "PostgreSQL"}
    /\ Tokens(q) # <<>>
    /\ Upper(Tokens(q)[1]) \notin AllowList(q.page)

DeleteFromCustomers == <<68, 69, 76, 69, 84, 69, 32, 70, 82, 79, 77, 32, 99, 117, 115, 116, 111, 109, 101, 114, 115>>

\* C1: for the key-value and the relational console, a command whose first
\* token (compared without regard to case) is not in the allow-list is
\* rejected and no command or query call is issued to the backend.  It is
\* stated for a backend that the health check of the same execute reports
\* connected, the health gate being the step before the parse.
C1_DisallowedRejected ==
    (FirstTokenDisallowed(ex) /\ ~ProbeSaysDown(ex)) =>
        (Rejected(ex) /\ ex.calls = <<>>)

\* C2, as claimed: "DELETE FROM customers" gets the rejection message of the
\* relational console in both health states.
C2_DeleteRejectedAnyHealth ==
    (ex.op = "query" /\ ex.page = "PostgreSQL" /\ ex.input = DeleteFromCustomers) =>
        Rejected(ex)

\* C2, amended: "DELETE FROM customers" never reaches the database in either
\* health state; it is rejected with the SELECT-only message when the probe
\* reports connected, and answered with the cannot-connect warning (without
\* the rejection message) when the probe reports not connected.
C2_DeleteNeverExecuted ==
    (ex.op = "query" /\ ex.page = "PostgreSQL" /\ ex.input = DeleteFromCustomers) =>
        /\ ex.calls = <<>>
        /\ ~ProbeSaysDown(ex) => ex.out = <<Ui("error", "select_only", <<>>)>>
        /\ ProbeSaysDown(ex) => ReportsUnavailable(ex)

C2_Witness ==
    /\ ex.op = "query" /\ ex.page = "PostgreSQL" /\ ex.input = DeleteFromCustomers
    /\ ~ProbeSaysDown(ex)
    /\ Rejected(ex)

\* C3: for each of the four consoles, when the health check made by the
\* execute reports the backend not connected, the execute answers with the
\* cannot-connect warning alone and issues no command, query or search call.
C3_DownMeansNoCall ==
    (ex.op = "query" /\ ex.page \in Names /\ ProbeSaysDown(ex)) =>
        (ReportsUnavailable(ex) /\ ex.calls = <<>>)

C3_Witness ==
    /\ ex.op = "query" /\ ex.page = "Qdrant"
    /\ ex.probes = <<"Qdrant">>
    /\ ProbeSaysDown(ex)
    /\ ReportsUnavailable(ex)

Green(state) == Contains(state.status, GreenCircle)

EveryManagerProbedOnce(c) == \A n \in Names : c.calls[n] = 1

NoManagerProbed(c) == \A n \in Names : c.calls[n] = 0

\* C5: a snapshot is never returned from an entry older than StatusTTL: the
\* entry a call is served from was created at most StatusTTL before the
\* call, and a call that finds an entry older than that probes every manager
\* again and returns the snapshot of that round.
C5_NoExpiredSnapshot ==
    last.op = "status" =>
        /\ last.t <= last.created + StatusTTL
        /\ (last.found.present /\ last.t > last.found.created + StatusTTL) =>
               (last.probed /\ EveryManagerProbedOnce(last) /\ last.created = last.t)

C5_Witness ==
    /\ last.op = "status" /\ ~last.forced
    /\ last.found.present /\ last.t > last.found.created + StatusTTL
    /\ last.probed

\* C7: when a status call that ran the probes is followed, with no cache
\* clear and less than StatusTTL later, by a second status call, the second
\* call probes no manager (so each was probed once in total) and returns the
\* snapshot the first call produced.
C7_OneRoundPerWindow ==
    [][(/\ last.op = "status" /\ last.probed /\ EveryManagerProbedOnce(last)
        /\ last' # last
        /\ last'.op = "status" /\ ~last'.forced
        /\ last'.t - last.t < StatusTTL)
       => (/\ ~last'.probed
           /\ NoManagerProbed(last')
           /\ last'.ret = last.ret
           /\ cache' = cache)]_vars

C7_Witness ==
    /\ last.op = "status" /\ ~last.forced /\ ~last.probed
    /\ NoManagerProbed(last)
    /\ last.found.present /\ last.found.created < last.t
    /\ last.t - last.found.created < StatusTTL

\* C8: a status call made after the refresh button cleared the cache always
\* probes every manager, also when the cache held an entry younger than
\* StatusTTL, and returns the snapshot computed from the answers of those
\* probes, which becomes the cached entry.
C8_ForcedRefreshProbes ==
    (last.op = "status" /\ last.forced) =>
        /\ last.probed
        /\ EveryManagerProbedOnce(last)
        /\ last.created = last.t
        /\ \A n \in Names : last.ret[n] = CheckConnection(n, last.inputs[n])

C8_Witness ==
    /\ last.op = "status" /\ last.forced
    /\ last.found.present /\ last.t < last.found.created + StatusTTL
    /\ last.probed /\ last.replaced

Failed(r) == r.kind = "exc" \/ (r.kind = "http" /\ r.code # HttpOK)

Succeeding(n) == IF n \in {"Redis", "PostgreSQL"} THEN Returned ELSE Http(HttpOK)

\* C9: every snapshot returned has exactly one entry for each of the four
\* managers; when a probe fails (raises, times out, or answers with a status
\* other than 200) the entry of that manager is not connected and every
\* other entry is what it would be had that probe succeeded.
C9_SnapshotComplete ==
    last.op = "status" =>
        /\ DOMAIN last.ret = Names
        /\ last.probed =>
             \A b \in Names : Failed(last.inputs[b]) =>
                /\ ~Green(last.ret[b])
                /\ last.ret[b].details # DetailNormal
                /\ LET other == CheckAllServersBody([last.inputs EXCEPT ![b] = Succeeding(b)])
                   IN /\ Green(other.status[b])
                      /\ \A c \in Names \ {b} : last.ret[c] = other.status[c]

C9_Witness ==
    /\ last.op = "status" /\ last.probed
    /\ Cardinality({b \in Names : Failed(last.inputs[b])}) = 1
    /\ Failed(last.inputs["Elasticsearch"])
    /\ Cardinality({b \in Names : Green(last.ret[b])}) = 3

\* C10: the connected count displayed is the number of entries of the latest
\* snapshot (the one get_connected_count obtained) that are connected, and
\* lies between 0 and the number of managers.
C10_ConnectedCount ==
    (pc = "idle" /\ last.op = "status") =>
        /\ shown.count = Cardinality({n \in Names : Green(last.ret[n])})
        /\ shown.count >= 0
        /\ shown.count <= Len(Managers)

C10_Witness ==
    /\ pc = "idle" /\ last.op = "status"
    /\ shown.count = 2
    /\ Cardinality({n \in Names : ~Green(last.ret[n])}) = 2

(***************************************************************************)
(* Results of the key-value console (checked under SpecGate)               *)
(***************************************************************************)
IsRedisQuery(q) == q.op = "query" /\ q.page = "Redis"

Verb(q) == IF Tokens(q) = <<>> THEN <<>> ELSE Upper(Tokens(q)[1])

Elements(s) == {s[i] : i \in DOMAIN s}

Ascending(s) == \A i, j \in DOMAIN s : i < j => StrLess(s[i], s[j])

SmembersAnswered(q) ==
    /\ IsRedisQuery(q)
    /\ Verb(q) = VerbSMEMBERS
    /\ Len(Tokens(q)) > 1
    /\ ~ProbeSaysDown(q)
    /\ ~answer.fail

\* C11: SMEMBERS with a key, against a backend reported connected that
\* answers the command, shows one list: strictly ascending under the string
\* order, holding exactly the members the server returned, each once,
\* whatever the order the server returned them in.
C11_SmembersSorted ==
    SmembersAnswered(ex) =>
        /\ Len(ex.out) = 1
        /\ ex.out[1].fn = "json"
        /\ Ascending(ex.out[1].val)
        /\ Elements(ex.out[1].val) = Elements(answer.smembers)
        /\ Len(ex.out[1].val) = Cardinality(Elements(answer.smembers))

\* The server iterates the set as Sports, Books; the page shows Books, Sports.
C11_Witness ==
    /\ SmembersAnswered(ex)
    /\ answer.smembers = <<Sports, Books>>
    /\ ex.out = <<Ui("json", "result", <<Books, Sports>>)>>

\* A token that reads as an integer index.
Integral(tok) == tok # <<>> /\ IsDigits(IF tok[1] \in {43, 45} THEN Tail(tok) ELSE tok)

\* A command the console's grammar accepts: an allowed verb with the
\* arguments it requires.
WellFormed(q) ==
    LET n == Len(Tokens(q))
    IN CASE Verb(q) = VerbKEYS -> n > 1
         [] Verb(q) \in {VerbGET, VerbHGETALL, VerbSMEMBERS} -> n > 1
         [] Verb(q) = VerbLRANGE -> n >= 4 /\ Integral(Tokens(q)[3]) /\ Integral(Tokens(q)[4])
         [] OTHER -> FALSE

ShowsResult(q) == \E i \in DOMAIN q.out : q.out[i].kind = "result"

\* C12: a well-formed key-value command that the backend answers (the key
\* may be missing) returns a list, a string or a mapping, never None, and
\* the page shows that result.
C12_AcceptedYieldsResult ==
    (IsRedisQuery(ex) /\ WellFormed(ex) /\ ~ProbeSaysDown(ex) /\ ~answer.fail) =>
        /\ ExecuteRedisCommand(ex.input, answer).ret.type \in {"list", "str", "dict"}
        /\ ShowsResult(ex)

(***************************************************************************)
(* The statement gate of the relational console (checked under SpecGate)   *)
(***************************************************************************)
\* C13: a statement reaches the database only if its first
\* whitespace-delimited token, compared without regard to case, is exactly
\* SELECT.
C13_OnlySelectReachesDatabase ==
    (ex.op = "query" /\ ex.page = "PostgreSQL" /\ ex.calls # <<>>) =>
        (Tokens(ex) # <<>> /\ Upper(Tokens(ex)[1]) = VerbSELECT)

(***************************************************************************)
(* Malformed key-value commands (checked under SpecGate)                   *)
(***************************************************************************)
EmptyCommand(q) == Tokens(q) = <<>>

KeysWithoutPattern(q) == Verb(q) = VerbKEYS /\ Len(Tokens(q)) = 1

MissingArguments(q) ==
    \/ Verb(q) \in {VerbGET, VerbHGETALL, VerbSMEMBERS} /\ Len(Tokens(q)) = 1
    \/ Verb(q) = VerbLRANGE /\ Len(Tokens(q)) < 4

NonIntegerIndex(q) ==
    /\ Verb(q) = VerbLRANGE
    /\ Len(Tokens(q)) >= 4
    /\ ~(Integral(Tokens(q)[3]) /\ Integral(Tokens(q)[4]))

Malformed(q) ==
    EmptyCommand(q) \/ KeysWithoutPattern(q) \/ MissingArguments(q) \/ NonIntegerIndex(q)

IsConsoleQuery(q) == q.op = "query" /\ q.page \in Names

OutcomeUnavailable(q) ==
    \E i \in DOMAIN q.out : q.out[i].fn = "warning" /\ q.out[i].kind = "unavailable"

OutcomeExecutionError(q) ==
    \E i \in DOMAIN q.out :
        \/ q.out[i].fn = "error"
           /\ q.out[i].kind \in {"exception", "search_exception", "search_failed"}
        \/ q.out[i].fn = "uncaught"

\* A result is shown, an empty one included.
OutcomeSuccess(q) ==
    \E i \in DOMAIN q.out : q.out[i].kind \in {"result", "found", "empty"}

OutcomeCount(q) ==
    (IF OutcomeUnavailable(q) THEN 1 ELSE 0) + (IF Rejected(q) THEN 1 ELSE 0)
    + (IF OutcomeExecutionError(q) THEN 1 ELSE 0) + (IF OutcomeSuccess(q) THEN 1 ELSE 0)

\* The command is invalid by the console's grammar.
InvalidCommand(q) ==
    \/ q.page = "Redis" /\ (Malformed(q) \/ FirstTokenDisallowed(q))
    \/ q.page = "PostgreSQL" /\ (Tokens(q) = <<>> \/ FirstTokenDisallowed(q))

\* The backend was sent the command and failed it.
BackendFailed(q) ==
    /\ q.calls # <<>>
    /\ \/ q.page = "Redis" /\ answer.fail
       \/ q.page = "PostgreSQL" /\ answer.kind = "exc"
       \/ q.page \in {"Elasticsearch", "Qdrant"}
          /\ (answer.kind = "exc" \/ answer.code # HttpOK)

\* C15: every execute ends in exactly one of: backend unavailable, command
\* rejected, execution error, success; an invalid command is not reported
\* as an execution error, and a failure of the backend is reported as an
\* execution error, not as an empty or successful result.
C15_OutcomesDistinct ==
    IsConsoleQuery(ex) =>
        /\ OutcomeCount(ex) = 1
        /\ InvalidCommand(ex) => ~OutcomeExecutionError(ex)
        /\ BackendFailed(ex) => (OutcomeExecutionError(ex) /\ ~OutcomeSuccess(ex))

(***************************************************************************)
(* The check_all_servers loop, step by step: each check_connection is a    *)
(* connection attempt followed by a wait for the answer, and time passes   *)
(* while the call blocks.                                                   *)
(***************************************************************************)
\* socket_connect_timeout=3, connect_timeout=3, timeout=3
ProbeTimeout == 3

MsgTimedOut == <<116, 105, 109, 101, 100, 32, 111, 117, 116>>

\* How a backend treats the probe: it answers (an HTTP backend with 200 or
\* with 503), refuses the connection, does not react to the connection
\* attempt, or accepts the connection and then never answers.
SocketBehaviours == {"answers", "refuses", "unreachable", "silent"}

HttpBehaviours == SocketBehaviours \cup {"answers_503"}

Behaviours(name) ==
    IF name \in {"Redis", "PostgreSQL"} THEN SocketBehaviours ELSE HttpBehaviours

BackendBehaviours == {b \in [Names -> HttpBehaviours] : \A n \in Names : b[n] \in Behaviours(n)}

\* Whether a timeout runs while the probe blocks in the phase.  Redis is
\* given a connect timeout only; connect_timeout of psycopg2 and timeout of
\* requests cover the wait for the answer as well.
Bounded(name, phase) == ~(name = "Redis" /\ phase = "response")

\* The answer of a backend that answers, as the probe's call returns it.
AnswerOf(name, behaviour) ==
    IF name \in {"Redis", "PostgreSQL"} THEN Returned
    ELSE IF behaviour = "answers" THEN Http(HttpOK) ELSE Http(503)

\* A loop that starts a probe without regard to the probes in flight.
CanStartAnytime(name, r) ==
    /\ r.i >= 1
    /\ name \notin r.inflight
    /\ name \notin DOMAIN r.status

\* for name, manager in self.managers.items(): the next manager's probe is
\* called when the previous call has returned.
CanStart(name, r) ==
    /\ r.i \in DOMAIN Managers
    /\ name = Managers[r.i]
    /\ r.inflight = {}

\* check_all_servers is entered: status = {}
BeginRound(b) ==
    /\ round = NoRound
    /\ round' = [i |-> 1, inflight |-> {}, phase |-> "none", waited |-> 0, status |-> <<>>]
    /\ backends' = b
    /\ UNCHANGED <<now, ttlInclusive, cache, pc, last, shown, ex, answer, mcall, session, setup>>

\* manager.check_connection() is called
StartProbe(name) ==
    /\ CanStart(name, round)
    /\ round' = [round EXCEPT !.inflight = @ \cup {name}, !.phase = "connect", !.waited = 0]
    /\ UNCHANGED <<now, ttlInclusive, cache, pc, last, shown, ex, answer, mcall, backends, session, setup>>

\* status[name] = <what check_connection returned>
ProbeReturns(name, state) ==
    /\ round' = [i |-> round.i + 1, inflight |-> round.inflight \ {name},
                 phase |-> "none", waited |-> 0,
                 status |-> (name :> state) @@ round.status]
    /\ UNCHANGED <<now, ttlInclusive, cache, pc, last, shown, ex, answer, mcall, backends, session, setup>>

\* The backend accepts the connection; the probe goes on to wait for the
\* answer.  The timeout of requests starts anew for the read; the one of
\* psycopg2 spans the whole connect call.
Connected(name) ==
    /\ name \in round.inflight
    /\ round.phase = "connect"
    /\ backends[name] \in {"answers", "answers_503", "silent"}
    /\ round' = [round EXCEPT !.phase = "response",
                              !.waited = IF name = "PostgreSQL" THEN @ ELSE 0]
    /\ UNCHANGED <<now, ttlInclusive, cache, pc, last, shown, ex, answer, mcall, backends, session, setup>>

Refused(name) ==
    /\ name \in round.inflight
    /\ round.phase = "connect"
    /\ backends[name] = "refuses"
    /\ ProbeReturns(name, Failure(Raised(MsgRefused)))

\* One unit of time passes while the probe blocks under a timeout.
Wait(name) ==
    /\ name \in round.inflight
    /\ Bounded(name, round.phase)
    /\ round.waited < ProbeTimeout
    /\ round' = [round EXCEPT !.waited = @ + 1]
    /\ UNCHANGED <<now, ttlInclusive, cache, pc, last, shown, ex, answer, mcall, backends, session, setup>>

TimedOut(name) ==
    /\ name \in round.inflight
    /\ Bounded(name, round.phase)
    /\ round.waited = ProbeTimeout
    /\ ProbeReturns(name, Failure(Raised(MsgTimedOut)))

Answered(name) ==
    /\ name \in round.inflight
    /\ round.phase = "response"
    /\ backends[name] \in {"answers", "answers_503"}
    /\ ProbeReturns(name, CheckConnection(name, AnswerOf(name, backends[name])))

\* return status
EndRound ==
    /\ round.i = Len(Managers) + 1
    /\ round' = NoRound
    /\ backends' = NoBackends
    /\ UNCHANGED <<now, ttlInclusive, cache, pc, last, shown, ex, answer, mcall, session, setup>>

ProbeStep(name) ==
    Connected(name) \/ Refused(name) \/ Wait(name) \/ TimedOut(name) \/ Answered(name)

NextRound ==
    \/ \E b \in BackendBehaviours : BeginRound(b)
    \/ \E name \in Names : StartProbe(name)
    \/ \E name \in Names : Connected(name)
    \/ \E name \in Names : Refused(name)
    \/ \E name \in Names : Wait(name)
    \/ \E name \in Names : TimedOut(name)
    \/ \E name \in Names : Answered(name)
    \/ EndRound

SpecRound == Init /\ [][NextRound]_vars

(***************************************************************************)
(* Properties of the loop (checked under SpecRound)                        *)
(***************************************************************************)
NotStarted(name) == name \notin round.inflight /\ name \notin DOMAIN round.status

C17_ProbeCanReturn ==
    \A name \in round.inflight : ENABLED ProbeStep(name)

(***************************************************************************)
(* The managers called on their own: check_connection with any exception   *)
(* message, and get_data_summary                                           *)
(***************************************************************************)
MaxMsgLen == 52

\* An exception message of n characters.
Message(n) == [i \in 1..n |-> 120]

Messages == {Message(n) : n \in 0..MaxMsgLen}

HttpCodes == {HttpOK, 404, 500, 503}

\* Every outcome of the probe's network call.
AnyProbeResponses(name) ==
    {Raised(m) : m \in Messages}
    \cup (IF name \in {"Redis", "PostgreSQL"} THEN {Returned} ELSE {Http(c) : c \in HttpCodes})

\* count > 1000
ScanLimit == 1000

QuestionMark == <<63>>
Plus == <<43>>

\* try: ... except Exception: return <fallback>
TryExceptReraises(body, fallback) == body

TryExcept(body, fallback) ==
    IF body.raised THEN [raised |-> FALSE, exc |-> "", ret |-> fallback] ELSE body

Return(v) == [raised |-> FALSE, exc |-> "", ret |-> v]
Raise(exc) == [raised |-> TRUE, exc |-> exc, ret |-> <<>>]

\* A scan that stops when the count reaches the limit.
ScanIterInclusive(keys) ==
    IF keys >= ScanLimit THEN [count |-> ScanLimit, partial |-> TRUE]
    ELSE [count |-> keys, partial |-> FALSE]

\* for _ in r.scan_iter(): count += 1; if count > 1000: return ...
\* After the c-th key the count is c; the loop returns at the first c that
\* exceeds the limit, and runs to the end when there is none.
ScanIter(keys) ==
    LET over == {c \in 1..keys : c > ScanLimit}
    IN IF over = {} THEN [count |-> keys, partial |-> FALSE]
       ELSE [count |-> CHOOSE c \in over : \A d \in over : c <= d, partial |-> TRUE]

\* RedisManager.get_data_summary.  store.kind: the server answers ("ok") or
\* a client call raises ("exc"), during the scan or in r.keys (store.at).
RedisGetDataSummary(store) ==
    TryExcept(
        IF store.kind = "exc" /\ store.at = "scan" THEN Raise("RedisError")
        ELSE LET s == ScanIter(store.keys)
             IN IF s.partial
                THEN Return([key_count |-> Digits(s.count) \o Plus, status |-> "partial"])
                ELSE IF store.kind = "exc" THEN Raise("RedisError")
                ELSE Return([key_count |-> Digits(s.count), status |-> "complete",
                             session_count |-> store.sessions,
                             counter_count |-> store.counters]),
        [key_count |-> QuestionMark, status |-> "error"])

\* get_redis_key_count of the single-file application: ping, then the same
\* counting loop; "?" on any exception.
GetRedisKeyCount(store) ==
    TryExcept(
        IF store.kind = "exc" /\ store.at = "scan" THEN Raise("RedisError")
        ELSE LET s == ScanIter(store.keys)
             IN IF s.partial THEN Return(Digits(s.count) \o Plus)
                ELSE Return(Digits(s.count)),
        QuestionMark)

\* PostgreSQLManager.get_data_summary.  db.kind: the three counts are read
\* ("ok") or create_engine / read_sql raises ("exc").
PostgreSQLGetDataSummary(db) ==
    TryExcept(
        IF db.kind = "exc" THEN Raise("DatabaseError")
        ELSE Return([table_count |-> 3, customers |-> db.customers, orders |-> db.orders,
                     products |-> db.products, status |-> "complete"]),
        [table_count |-> QuestionMark, status |-> "error"])

\* ElasticsearchManager.get_data_summary.  r.kind: the GET raises ("exc",
\* a timeout included) or answers ("http") with r.code; r.body: the body
\* has a count ("count"), is JSON without it ("nocount") or is not JSON.
ElasticsearchGetDataSummary(r) ==
    TryExcept(
        IF r.kind = "exc" THEN Raise("RequestException")
        ELSE IF r.code = HttpOK
             THEN IF r.body = "notjson" THEN Raise("JSONDecodeError")
                  ELSE IF r.body = "nocount" THEN Raise("KeyError")
                  ELSE Return([document_count |-> r.count, status |-> "complete"])
             ELSE Return([document_count |-> QuestionMark, status |-> "error"]),
        [document_count |-> QuestionMark, status |-> "error"])

\* QdrantManager.get_data_summary.  r.body: the body is as documented
\* ("ok"), is not JSON, has no "result" key, has "result": null, has a
\* result without "collections", or lists a collection without "name".
QdrantGetDataSummary(r) ==
    TryExcept(
        IF r.kind = "exc" THEN Raise("RequestException")
        ELSE IF r.code = HttpOK
             THEN CASE r.body = "notjson" -> Raise("JSONDecodeError")
                    [] r.body = "nullresult" -> Raise("AttributeError")
                    [] r.body = "noname" -> Raise("KeyError")
                    [] r.body \in {"noresult", "nocollections"} ->
                         Return([collection_count |-> 0, collections |-> <<>>,
                                 status |-> "complete"])
                    [] OTHER ->
                         Return([collection_count |-> Len(r.names), collections |-> r.names,
                                 status |-> "complete"])
             ELSE Return([collection_count |-> QuestionMark, status |-> "error"]),
        [collection_count |-> QuestionMark, status |-> "error"])

GetDataSummary(name, reply) ==
    IF name = "Redis" THEN RedisGetDataSummary(reply)
    ELSE IF name = "PostgreSQL" THEN PostgreSQLGetDataSummary(reply)
    ELSE IF name = "Elasticsearch" THEN ElasticsearchGetDataSummary(reply)
    ELSE QdrantGetDataSummary(reply)

KeyCounts == {0, 3, ScanLimit, ScanLimit + 1, ScanLimit + 2}

RedisStores ==
    {[kind |-> k, at |-> a, keys |-> n, sessions |-> s, counters |-> 1] :
        k \in {"ok", "exc"}, a \in {"scan", "keys"}, n \in KeyCounts, s \in {0, 2}}

SummaryDatabases ==
    {[kind |-> k, customers |-> c, orders |-> o, products |-> 5] :
        k \in {"ok", "exc"}, c \in {0, 10}, o \in {0, 20}}

CountReplies ==
    {[kind |-> k, code |-> c, body |-> b, count |-> n] :
        k \in {"http", "exc"}, c \in HttpCodes, b \in {"count", "nocount", "notjson"},
        n \in {0, 7}}

CollectionReplies ==
    {[kind |-> k, code |-> c, body |-> b, names |-> ns] :
        k \in {"http", "exc"}, c \in HttpCodes,
        b \in {"ok", "notjson", "noresult", "nullresult", "nocollections", "noname"},
        ns \in {<<>>, <<"product_embeddings">>}}

SummaryReplies(name) ==
    IF name = "Redis" THEN RedisStores
    ELSE IF name = "PostgreSQL" THEN SummaryDatabases
    ELSE IF name = "Elasticsearch" THEN CountReplies
    ELSE CollectionReplies

CallCheckConnection(name, resp) ==
    /\ mcall' = [op |-> "check_connection", name |-> name, reply |-> resp,
                 result |-> Return(CheckConnection(name, resp))]
    /\ UNCHANGED <<now, ttlInclusive, cache, pc, last, shown, ex, answer, round, backends, session, setup>>

CallGetDataSummary(name, reply) ==
    /\ mcall' = [op |-> "get_data_summary", name |-> name, reply |-> reply,
                 result |-> GetDataSummary(name, reply)]
    /\ UNCHANGED <<now, ttlInclusive, cache, pc, last, shown, ex, answer, round, backends, session, setup>>

NextManager ==
    \/ \E name \in Names : \E resp \in AnyProbeResponses(name) : CallCheckConnection(name, resp)
    \/ \E name \in Names : \E reply \in SummaryReplies(name) : CallGetDataSummary(name, reply)

SpecManager == Init /\ [][NextManager]_vars

(***************************************************************************)
(* Properties of the managers (checked under SpecManager)                  *)
(***************************************************************************)
\* C18: a status record that does not report connected carries a non-empty
\* detail, whatever the exception message or the HTTP status was.
C18_UnhealthyHasDetail ==
    (mcall.op = "check_connection" /\ ~Contains(mcall.result.ret.status, GreenCircle)) =>
        mcall.result.ret.details # <<>>

\* The call of the summary met a failure: an exception (a timeout included),
\* a response other than 200, or a body that is not as documented.
SummaryFailed(c) ==
    \/ c.name = "Redis" /\ c.reply.kind = "exc"
       /\ ~(c.reply.at = "keys" /\ c.reply.keys > ScanLimit)
    \/ c.name = "PostgreSQL" /\ c.reply.kind = "exc"
    \/ c.name = "Elasticsearch"
       /\ (c.reply.kind = "exc" \/ c.reply.code # HttpOK \/ c.reply.body # "count")
    \/ c.name = "Qdrant"
       /\ (c.reply.kind = "exc" \/ c.reply.code # HttpOK \/ c.reply.body # "ok")

\* A 200 answer of the vector store whose body lacks a key the summary
\* reads with a default.
ReadWithDefault(c) ==
    /\ c.name = "Qdrant"
    /\ c.reply.kind = "http" /\ c.reply.code = HttpOK
    /\ c.reply.body \in {"noresult", "nocollections"}

\* C19, as claimed: on any failure get_data_summary returns a mapping whose
\* status is "error" and raises nothing.
C19_FailureGivesError ==
    (mcall.op = "get_data_summary" /\ SummaryFailed(mcall)) =>
        (~mcall.result.raised /\ mcall.result.ret.status = "error")

\* C19, amended: get_data_summary never raises and always returns a mapping
\* with a status; the status is "error" on every failure except a 200
\* answer of the vector store whose body lacks "result" or "collections",
\* which is summarised as complete with no collections.
C19_SummaryNeverRaises ==
    mcall.op = "get_data_summary" =>
        /\ ~mcall.result.raised
        /\ "status" \in DOMAIN mcall.result.ret
        /\ (SummaryFailed(mcall) /\ ~ReadWithDefault(mcall)) =>
               mcall.result.ret.status = "error"
        /\ ReadWithDefault(mcall) =>
               (mcall.result.ret.status = "complete"
                /\ mcall.result.ret.collection_count = 0)
        /\ ~SummaryFailed(mcall) => mcall.result.ret.status \in {"complete", "partial"}

\* Each kind of failure has been turned into an "error" summary: here the
\* search engine's count request timing out.
C19_Witness ==
    /\ mcall.op = "get_data_summary"
    /\ mcall.name = "Elasticsearch"
    /\ mcall.reply.kind = "exc"
    /\ mcall.result.ret = [document_count |-> QuestionMark, status |-> "error"]

(***************************************************************************)
(* The application run: the sidebar's status display and the query console *)
(* on the same page, sharing the status manager                            *)
(***************************************************************************)
AllUp == [n \in Names |-> IF n \in {"Redis", "PostgreSQL"} THEN Returned ELSE Http(HttpOK)]

AllDown == [n \in Names |-> Raised(MsgRefused)]

\* The rounds and the console inputs of the combined run.
RunRounds == {AllUp, AllDown}

GetK == <<71, 69, 84, 32, 107>>

RunCommands == {GetK, <<>>}

RunQueries == {DeleteFromCustomers, <<115, 101, 108, 101, 99, 116, 32, 49>>}

RunSearches == {i \in SearchInputs : i.term = "Python" /\ i.field = AllFields}

RunVectors == {i \in VectorInputs :
                  i.category = AllCategories /\ i.limit = 1 /\ i.price = <<0, 100000>>}

NextRun ==
    \/ \E d \in {StatusTTL} : Tick(d)
    \/ \E button \in BOOLEAN, resps \in RunRounds : RenderServerStatus(button, resps)
    \/ \E resps \in RunRounds : GetConnectedCount(resps)
    \/ \E c \in RunCommands, p \in SocketResponses, sv \in RedisServers : ExecRedis(c, p, sv)
    \/ \E sq \in RunQueries, p \in SocketResponses, db \in Databases : ExecPostgreSQL(sq, p, db)
    \/ \E i \in RunSearches, p \in HttpResponses, es \in SearchReplies : ExecElasticsearch(i, p, es)
    \/ \E i \in RunVectors, p \in HttpResponses, q \in VectorReplies : ExecQdrant(i, p, q)
    \/ \E n \in {"MongoDB"}, p \in HttpResponses : ExecOther(n, p)

SpecRun == Init /\ [][NextRun]_vars

(***************************************************************************)
(* Frame of an execute (checked under SpecRun)                             *)
(***************************************************************************)
\* C20: a step in which the console runs an execute, whatever its outcome,
\* leaves the status cache as it was: the same snapshot with the same
\* creation time, hence the same expiry.
C20_ExecuteKeepsCache ==
    [][(ex' # ex \/ answer' # answer) => cache' = cache]_vars

\* An execute whose own probe found the backend down has run while the
\* cache holds a snapshot that reports the same backend connected.
C20_Witness ==
    /\ cache.present
    /\ ex.op = "query" /\ ex.page \in Names
    /\ ProbeSaysDown(ex)
    /\ Green(cache.value[ex.page])

(***************************************************************************)
(* search_articles called by the console and called on its own             *)
(***************************************************************************)
\* Field names a caller of search_articles may pass: the options of the
\* select box and two fields of the index that are not among them.
AnyFields == {SearchFields[i] : i \in DOMAIN SearchFields} \cup {"tags", "view_count"}

CallSearchArticles(term, field, es) ==
    /\ mcall' = [op |-> "search_articles", term |-> term, field |-> field, reply |-> es,
                 result |-> SearchArticles(term, field, es)]
    /\ UNCHANGED <<now, ttlInclusive, cache, pc, last, shown, ex, answer, round, backends, session, setup>>

NextSearch ==
    \/ \E tm \in {"Python", ""}, f \in AnyFields, es \in SearchReplies :
          CallSearchArticles(tm, f, es)
    \/ \E i \in SearchInputs, p \in HttpResponses, es \in SearchReplies :
          ExecElasticsearch(i, p, es)

SpecSearch == Init /\ [][NextSearch]_vars

(***************************************************************************)
(* Properties of the search (checked under SpecSearch)                     *)
(***************************************************************************)
EnumeratedFields == {"title", "content", "category", "author"}

\* C21, as claimed: a search naming a field that is neither "all fields"
\* nor one of title, content, category, author is rejected and no request
\* is sent to the backend.
C21_OtherFieldRejected ==
    (mcall.op = "search_articles" /\ mcall.field \notin EnumeratedFields \cup {AllFields}) =>
        mcall.result.calls = <<>>

\* C21, amended: a search run from the console always carries a field of
\* the select box (all fields or one of the four), so the request sent
\* names only those; search_articles itself checks nothing: called with
\* any other field it sends a match query on that field.
C21_FieldSentAsGiven ==
    /\ (ex.op = "query" /\ ex.page = "Elasticsearch" /\ ex.calls # <<>>) =>
          /\ ex.input.field \in EnumeratedFields \cup {AllFields}
          /\ Len(ex.calls) = 1
          /\ ex.calls[1].args[1].kind = (IF ex.input.field = AllFields
                                         THEN "multi_match" ELSE "match")
          /\ ex.input.field # AllFields => ex.calls[1].args[1].fields = <<ex.input.field>>
    /\ mcall.op = "search_articles" =>
          /\ Len(mcall.result.calls) = 1
          /\ mcall.field # AllFields =>
                /\ mcall.result.calls[1].args[1].kind = "match"
                /\ mcall.result.calls[1].args[1].fields = <<mcall.field>>

\* search_articles("Python", "tags") has sent a match query on tags.
C21_Witness ==
    /\ mcall.op = "search_articles"
    /\ mcall.field = "tags"
    /\ mcall.result.calls # <<>>
    /\ mcall.result.calls[1].args[1].fields = <<"tags">>

(***************************************************************************)
(* Consistency of the sidebar (checked under Spec)                         *)
(***************************************************************************)
GreenEntries(status) == {n \in DOMAIN status : Green(status[n])}

\* C22: when a run of render_server_status has displayed its count, the
\* count equals the number of entries of the status list displayed in the
\* same run that report connected.
C22_CountMatchesList ==
    (pc = "idle" /\ shown.count # NoCount) =>
        shown.count = Cardinality(GreenEntries(shown.status))

(***************************************************************************)
(* The probe of an execute (checked under SpecRun)                         *)
(***************************************************************************)
\* C23: every execute against one of the four backends makes one
\* check_connection call of that backend's manager, and issues calls to the
\* backend only if the status that call returned reports connected,
\* whatever the status cache holds.
C23_OwnProbeGates ==
    (ex.op = "query" /\ ex.page \in Names) =>
        /\ ex.probes = <<ex.page>>
        /\ ex.calls # <<>> => Green(ex.status)

\* The cache holds a snapshot reporting Redis connected; the execute's own
\* probe found Redis down, and nothing was sent to it.
C23_Witness ==
    /\ ex.op = "query" /\ ex.page = "Redis"
    /\ ex.probes = <<"Redis">>
    /\ ~Green(ex.status)
    /\ ex.calls = <<>>
    /\ cache.present /\ Green(cache.value["Redis"])

(***************************************************************************)
(* The inline query console of a_mcp_sample (tab3), which reads the status *)
(* string of check_server_status                                           *)
(***************************************************************************)
Inline(calls, out) == [calls |-> calls, out |-> out]

NoneText == <<78, 111, 110, 101>>

\* str(result) of the inline GET branch, None included
InlineStr(v) == IF v = PyNone THEN NoneText ELSE PyStrOf(v)

\* One client call inside the inline try block: the page elements on
\* success, the exception message when the client raises.
InlineClient(server, call, shown_result) ==
    IF server.fail THEN Inline(<<call>>, <<Ui("error", "exception", "RedisError")>>)
    ELSE Inline(<<call>>, shown_result)

\* tab3, Redis branch with the button pressed
InlineRedisQuery(redis_command, status, server) ==
    IF ~Contains(status, GreenCircle) THEN Inline(<<>>, <<Unavailable("Redis")>>)
    ELSE
    LET cmd_parts == Split(Strip(redis_command))
    IN IF cmd_parts = <<>> THEN Inline(<<>>, <<Ui("error", "exception", "IndexError")>>)
       ELSE
       LET cmd == Upper(cmd_parts[1])
           n == Len(cmd_parts)
           usage == Inline(<<>>, <<Ui("error", "usage", cmd)>>)
       IN CASE cmd = VerbKEYS ->
                 InlineClient(server, Call("keys", <<IF n > 1 THEN cmd_parts[2] ELSE Star>>),
                              <<Ui("json", "result", Sorted(server.keys))>>)
            [] cmd = VerbGET ->
                 IF n > 1
                 THEN InlineClient(server, Call("get", <<cmd_parts[2]>>),
                                   <<Ui("code", "result", InlineStr(server.get))>>)
                 ELSE usage
            [] cmd = VerbHGETALL ->
                 IF n > 1
                 THEN InlineClient(server, Call("hgetall", <<cmd_parts[2]>>),
                                   <<Ui("json", "result", server.hgetall)>>)
                 ELSE usage
            [] cmd = VerbSMEMBERS ->
                 IF n > 1
                 THEN InlineClient(server, Call("smembers", <<cmd_parts[2]>>),
                                   <<Ui("json", "result", Sorted(server.smembers))>>)
                 ELSE usage
            [] cmd = VerbLRANGE ->
                 IF n >= 4
                 THEN IF ~IsInt(cmd_parts[3]) \/ ~IsInt(cmd_parts[4])
                      THEN Inline(<<>>, <<Ui("error", "exception", "ValueError")>>)
                      ELSE InlineClient(server,
                                        Call("lrange", <<cmd_parts[2], ParseInt(cmd_parts[3]),
                                                         ParseInt(cmd_parts[4])>>),
                                        <<Ui("json", "result", server.lrange)>>)
                 ELSE usage
            [] OTHER ->
                 Inline(<<>>, <<Ui("error", "unsupported", cmd), Ui("info", "supported", <<>>)>>)

\* tab3, PostgreSQL branch with the button pressed
InlinePostgresqlQuery(sql_query, status, db) ==
    LET call == Call("read_sql", <<sql_query>>)
    IN IF ~Contains(status, GreenCircle) THEN Inline(<<>>, <<Unavailable("PostgreSQL")>>)
       ELSE IF ~IsSelect(sql_query) THEN Inline(<<>>, <<Ui("error", "select_only", <<>>)>>)
       ELSE IF ~db.env THEN Inline(<<>>, <<Ui("error", "exception", "ArgumentError")>>)
       ELSE IF db.kind = "exc"
            THEN Inline(<<call>>, <<Ui("error", "exception", "DatabaseError")>>)
       ELSE IF db.rows > 0
            THEN Inline(<<call>>, <<Ui("dataframe", "result", db.rows),
                                    Ui("download_button", "csv", db.rows)>>)
       ELSE Inline(<<call>>, <<Ui("info", "empty", 0)>>)

\* tab3, Elasticsearch branch with the button pressed: the request is built
\* and sent inside the try block of the page itself.
InlineElasticsearchQuery(input, status, es) ==
    LET query == IF input.field = AllFields
                 THEN [kind |-> "multi_match", term |-> input.term,
                       fields |-> <<"title^2", "content", "category", "author">>,
                       highlight |-> <<"title", "content">>]
                 ELSE [kind |-> "match", term |-> input.term, fields |-> <<input.field>>,
                       highlight |-> <<input.field>>]
        call == Call("search", <<query>>)
    IN IF ~Contains(status, GreenCircle) THEN Inline(<<>>, <<Unavailable("Elasticsearch")>>)
       ELSE IF es.kind = "exc"
            THEN Inline(<<call>>, <<Ui("error", "exception", "RequestException")>>)
       ELSE IF es.code # HttpOK
            THEN Inline(<<call>>, <<Ui("error", "search_failed", es.code)>>)
       ELSE IF ~es.body
            THEN Inline(<<call>>, <<Ui("error", "exception", "KeyError")>>)
       ELSE IF es.hits > 0
            THEN Inline(<<call>>, <<Ui("success", "found", es.hits)>>
                                  \o (IF es.full THEN <<Ui("expander", "result", es.hits)>>
                                      ELSE <<Ui("error", "exception", "KeyError")>>))
       ELSE Inline(<<call>>, <<Ui("info", "empty", input.term)>>)

\* tab3, Qdrant branch with the button pressed
InlineQdrantQuery(input, status, q) ==
    LET call == Call("points_search", <<SearchRequest(input)>>)
    IN IF ~Contains(status, GreenCircle) THEN Inline(<<>>, <<Unavailable("Qdrant")>>)
       ELSE IF q.kind = "exc"
            THEN Inline(<<call>>, <<Ui("error", "exception", "RequestException")>>)
       ELSE IF q.code # HttpOK
            THEN Inline(<<call>>, <<Ui("error", "search_failed", q.code)>>)
       ELSE IF q.points > 0
            THEN Inline(<<call>>, <<Ui("success", "found", q.points)>>
                                  \o (IF q.full
                                      THEN <<Ui("dataframe", "result", q.points),
                                             Ui("expander", "result", q.points)>>
                                      ELSE <<Ui("error", "exception", "KeyError")>>))
       ELSE Inline(<<call>>, <<Ui("info", "empty", 0)>>)

\* if query_type == "Redis": ... elif ...
\* status is the string check_server_status stored for the server.
InlineQuery(query_type, input, status, reply) ==
    IF query_type = "Redis" THEN InlineRedisQuery(input, status, reply)
    ELSE IF query_type = "PostgreSQL" THEN InlinePostgresqlQuery(input, status, reply)
    ELSE IF query_type = "Elasticsearch" THEN InlineElasticsearchQuery(input, status, reply)
    ELSE InlineQdrantQuery(input, status, reply)

(***************************************************************************)
(* The two consoles compared (checked under SpecGate)                      *)
(***************************************************************************)
\* The classes of outcome among the elements written to the page.
OutcomeClasses(out) ==
    {"unavailable" : i \in {j \in DOMAIN out : out[j].fn = "warning"}}
    \cup {"rejected" : i \in {j \in DOMAIN out :
             out[j].fn = "error" /\ out[j].kind \in {"unsupported", "usage", "select_only"}}}
    \cup {"error" : i \in {j \in DOMAIN out :
             \/ out[j].fn = "uncaught"
             \/ out[j].fn = "error"
                /\ out[j].kind \in {"exception", "search_exception", "search_failed"}}}
    \cup {"empty" : i \in {j \in DOMAIN out : out[j].kind = "empty"}}
    \cup {"result" : i \in {j \in DOMAIN out : out[j].kind \in {"result", "found"}}}

\* C24: for the same status answer, the same input and the same reply of
\* the backend, the page of DirectQueryPage and the inline console of tab3
\* show outcomes of the same classes.
C24_ConsolesAgree ==
    IsConsoleQuery(ex) =>
        OutcomeClasses(ex.out)
            = OutcomeClasses(InlineQuery(ex.page, ex.input, ex.status.status, answer).out)

(***************************************************************************)
(* The application's script runs: session state, the sidebar navigation    *)
(* and the AI chat page.  One script run is one step; st.rerun() ends the  *)
(* run and asks for another one, and a widget event that arrives while the *)
(* response is being written out stops the run where it is.                *)
(***************************************************************************)
MaxMessages == 4

TabNames == <<"data_view", "ai_chat", "direct_query", "data_analysis", "settings">>

\* The keys of self.pages
Pages == {0, 1, 2, 3, 4}

\* The page whose render() handles the chat
ChatPage == 1

\* st.session_state.selected_tab_index = 1 of the sample-question button
SampleTabIndex == 1

\* i of enumerate(tab_names), counted from one.
NavTargetsFromOne(tab_names) == 1..Len(tab_names)

\* i of "for i, tab_name in enumerate(tab_names)"
NavTargets(tab_names) == 0..(Len(tab_names) - 1)

ChatMessage(role, content) == [role |-> role, content |-> content]

NoQuestion == "select_prompt"

SampleQuestions == {"sample_question"}

Prompts == {"typed_prompt"}

Event(type, arg) == [type |-> type, arg |-> arg]

NoEvent == Event("none", 0)

NoRun == [page |-> "none", status |-> <<>>, ready |-> FALSE, key |-> FALSE,
          handled |-> FALSE, responded |-> FALSE, stopped |-> FALSE]

\* MCPSessionManager.init_session: each key is set when it is missing.  The
\* widget state and the environment of the process are kept beside it.
InitSession(s, api_key) ==
    IF s.started THEN s
    ELSE [started |-> TRUE, messages |-> <<>>, selected_tab_index |-> 0,
          auto_process_question |-> FALSE, api_key |-> api_key,
          question_selector |-> NoQuestion, rendered |-> {}, rerun |-> FALSE,
          run |-> NoRun]

\* AIChatPage._create_demo_response
DemoResponse(prompt) == <<"response", prompt>>

ErrorMessage == <<"error">>

\* all(green in s["status"] for s in status.values()), always true.
CheckServersLenient(status) == TRUE

\* AIChatPage._check_servers on the status check_all_servers returned
CheckServers(status) == \A n \in DOMAIN status : Healthy(status[n])

\* AIChatPage._generate_ai_response.  outcome: the response is written out
\* and stored ("response"), the try block raises and the error message is
\* stored ("error"), or the run is stopped while the words are written out
\* ("stopped"), before anything is stored.
GenerateAiResponse(s, prompt, outcome) ==
    IF outcome = "stopped" THEN [s EXCEPT !.run.stopped = TRUE]
    ELSE [s EXCEPT !.messages = Append(@, ChatMessage("assistant",
                                   IF outcome = "response" THEN DemoResponse(prompt)
                                                           ELSE ErrorMessage)),
                   !.run.responded = TRUE]

\* AIChatPage._handle_chat_input
HandleChatInput(s, event, outcome) ==
    LET prompt == IF event.type = "prompt" THEN event.arg ELSE NoQuestion
        has_prompt == event.type = "prompt"
        s1 == [s EXCEPT !.rendered = @ \cup {"chat_input"}]
        s2 == IF s1.auto_process_question \/ has_prompt
              THEN IF s1.auto_process_question
                   THEN LET s3 == [s1 EXCEPT !.auto_process_question = FALSE,
                                             !.run.handled = TRUE]
                        IN IF s3.messages # <<>> /\ s3.messages[Len(s3.messages)].role = "user"
                           THEN GenerateAiResponse(s3, s3.messages[Len(s3.messages)].content,
                                                   outcome)
                           ELSE s3
                   ELSE GenerateAiResponse(
                            [s1 EXCEPT !.messages = Append(@, ChatMessage("user", prompt)),
                                       !.run.handled = TRUE],
                            prompt, outcome)
              ELSE s1
    IN IF s2.run.stopped THEN s2
       ELSE LET s4 == [s2 EXCEPT !.rendered = @ \cup {"clear_chat"}]
            IN IF event.type = "clear"
               THEN [s4 EXCEPT !.messages = <<>>, !.rerun = TRUE]
               ELSE s4

\* AIChatPage._render_sample_questions followed by the rest of render
RenderSampleQuestions(s, event, outcome) ==
    LET selected_question == IF event.type = "select" THEN event.arg ELSE s.question_selector
        s1 == [s EXCEPT !.question_selector = selected_question,
                        !.rendered = @ \cup {"question_selector"}
                                       \cup (IF selected_question # NoQuestion
                                             THEN {"use_question_btn"} ELSE {})]
    IN IF selected_question # NoQuestion /\ event.type = "use_question"
       THEN [s1 EXCEPT !.messages = Append(@, ChatMessage("user", selected_question)),
                       !.auto_process_question = TRUE,
                       !.selected_tab_index = SampleTabIndex,
                       !.rerun = TRUE]
       ELSE HandleChatInput(s1, event, outcome)

\* AIChatPage.render
AIChatPageRender(s, event, status, outcome) ==
    LET s1 == [s EXCEPT !.run.page = "chat", !.run.status = status,
                        !.run.ready = CheckServers(status), !.run.key = s.api_key]
    IN IF ~CheckServers(status) THEN s1
       ELSE IF ~s.api_key THEN s1
       ELSE RenderSampleQuestions(s1, event, outcome)

\* SidebarManager.render_navigation: a click on the button of another tab
\* stores its index and reruns.
RenderNavigation(s, event) ==
    IF event.type = "nav" /\ event.arg # s.selected_tab_index
    THEN [s EXCEPT !.selected_tab_index = event.arg, !.rerun = TRUE,
                   !.rendered = @ \cup {"nav"}]
    ELSE [s EXCEPT !.rendered = @ \cup {"nav"}]

\* MCPApplication.run
Run(s0, api_key, event, status, outcome) ==
    LET s == [InitSession(s0, api_key) EXCEPT !.rendered = {}, !.rerun = FALSE, !.run = NoRun]
        s1 == RenderNavigation(s, event)
    IN IF s1.rerun THEN s1
       ELSE IF s1.selected_tab_index \in Pages
            THEN IF s1.selected_tab_index = ChatPage
                 THEN AIChatPageRender(s1, event, status, outcome)
                 ELSE [s1 EXCEPT !.run.page = "other"]
            ELSE [s1 EXCEPT !.run.page = "missing"]

\* The events the browser can send: none (a rerun, or a sidebar button that
\* changes no session state), or one on a widget the latest run rendered.
\* After st.rerun() the next run follows with no event.
Events(s) ==
    IF ~s.started \/ s.rerun THEN {NoEvent}
    ELSE {NoEvent}
         \cup (IF "nav" \in s.rendered
               THEN {Event("nav", i) : i \in NavTargets(TabNames) \ {s.selected_tab_index}}
               ELSE {})
         \cup (IF "question_selector" \in s.rendered
               THEN {Event("select", q) : q \in SampleQuestions \cup {NoQuestion}} ELSE {})
         \cup (IF "use_question_btn" \in s.rendered /\ Len(s.messages) + 2 <= MaxMessages
               THEN {Event("use_question", 0)} ELSE {})
         \cup (IF "chat_input" \in s.rendered /\ Len(s.messages) + 2 <= MaxMessages
               THEN {Event("prompt", p) : p \in Prompts} ELSE {})
         \cup (IF "clear_chat" \in s.rendered THEN {Event("clear", 0)} ELSE {})

ScriptRun(api_key, event, status, outcome) ==
    /\ event \in Events(session)
    /\ session' = Run(session, api_key, event, status, outcome)
    /\ UNCHANGED <<now, ttlInclusive, cache, pc, last, shown, ex, answer, mcall, round,
                   backends, setup>>

Outcomes == {"response", "error", "stopped"}

OneDown == [AllUp EXCEPT !["Qdrant"] = Raised(MsgRefused)]

StatusAnswers == {CheckAllServersBody(resps).status : resps \in {AllUp, OneDown, AllDown}}

NextApp ==
    \E api_key \in BOOLEAN, status \in StatusAnswers, outcome \in Outcomes :
        \E event \in Events(session) : ScriptRun(api_key, event, status, outcome)

SpecApp == Init /\ [][NextApp]_vars

\* Two neighbouring messages of the user
ConsecutiveUsers(messages) ==
    \E i \in 1..(Len(messages) - 1) :
        messages[i].role = "user" /\ messages[i + 1].role = "user"

\* C25: the message list of the chat never holds two consecutive messages
\* of the user, whatever buttons are clicked, prompts typed, reruns made and
\* however the health of the servers changes.
C25_NoConsecutiveUsers ==
    session.started => ~ConsecutiveUsers(session.messages)

\* The latest run called AIChatPage.render and one of its two checks failed.
ChatCheckFailed(s) ==
    /\ s.started
    /\ s.run.page = "chat"
    /\ ~(GreenEntries(s.run.status) = Names /\ s.api_key)

\* C26: a run handles the chat input or stores an AI response only when all
\* four servers report connected and the API key is present; a run of the
\* chat page in which one of the two checks fails ends with the message
\* list and auto_process_question as they were.
C26_ChatOnlyWhenReady ==
    [][/\ (session'.started /\ (session'.run.handled \/ session'.run.responded)) =>
              /\ session'.run.page = "chat"
              /\ GreenEntries(session'.run.status) = Names
              /\ session'.api_key
       /\ ChatCheckFailed(session') =>
              /\ session.started
              /\ session'.messages = session.messages
              /\ session'.auto_process_question = session.auto_process_question
              /\ ~session'.run.handled /\ ~session'.run.responded]_vars

\* A run of the chat page with one server down while a sample question
\* waits for its answer: the question and the flag stay as they are.
C26_Witness ==
    /\ ChatCheckFailed(session)
    /\ session.api_key
    /\ Cardinality(GreenEntries(session.run.status)) = Cardinality(Names) - 1
    /\ session.auto_process_question
    /\ session.messages # <<>>

\* C27: once the session is initialised selected_tab_index is one of the
\* five page indices 0..4, so every run of MCPApplication.run finds the
\* page to render.
C27_TabIndexInRange ==
    session.started =>
        /\ session.selected_tab_index \in 0..(Len(TabNames) - 1)
        /\ session.selected_tab_index \in Pages
        /\ session.run.page # "missing"

\* The last tab has been chosen in the sidebar and its page rendered.
C27_Witness ==
    /\ session.started
    /\ session.selected_tab_index = Len(TabNames) - 1
    /\ session.run.page = "other"

(***************************************************************************)
(* The key count of the Redis summary (checked under SpecManager)          *)
(***************************************************************************)
\* The scan of a store of the call went through without an exception.
Scanned(c) ==
    /\ c.op = "get_data_summary"
    /\ c.name = "Redis"
    /\ ~(c.reply.kind = "exc" /\ c.reply.at = "scan")

\* "1001+"
Text1001Plus == <<49, 48, 48, 49, 43>>

\* C28: the Redis summary counts at most 1001 keys.  A store of n <= 1000
\* keys is reported with key_count n and status "complete"; a store of more
\* than 1000 keys is reported as "1001+" with status "partial" and nothing
\* else, r.keys not being called; the key count of the single-file
\* application is the same text.
C28_ScanCapped ==
    Scanned(mcall) =>
        LET n == mcall.reply.keys
            ret == mcall.result.ret
        IN /\ ScanIter(n).count <= 1001
           /\ (n <= 1000 /\ mcall.reply.kind = "ok") =>
                  /\ ret.key_count = Digits(n)
                  /\ DigitsValue(ret.key_count) = n
                  /\ ret.status = "complete"
                  /\ GetRedisKeyCount(mcall.reply).ret = Digits(n)
           /\ n > 1000 =>
                  /\ ret = [key_count |-> Text1001Plus, status |-> "partial"]
                  /\ GetRedisKeyCount(mcall.reply).ret = Text1001Plus

\* The two sides of the limit have been summarised: a store of exactly 1000
\* keys in full, or a store of 1002 keys cut short although r.keys would
\* have raised.
C28_Witness ==
    /\ Scanned(mcall)
    /\ \/ mcall.reply.keys = 1000 /\ mcall.reply.kind = "ok"
          /\ mcall.result.ret.status = "complete"
       \/ mcall.reply.keys = 1002 /\ mcall.reply.kind = "exc"
          /\ mcall.result.ret.status = "partial"

(***************************************************************************)
(* setup_test_data: the three loaders and main                             *)
(***************************************************************************)
MaxSetupRuns == 3

Sessions ==
    [k \in {"session:user1", "session:user2", "session:user3"} |->
        IF k = "session:user1"
        THEN [user_id |-> 1, username |-> "tanaka", login_time |-> "2024-01-15 10:30:00"]
        ELSE IF k = "session:user2"
        THEN [user_id |-> 2, username |-> "sato", login_time |-> "2024-01-15 11:15:00"]
        ELSE [user_id |-> 3, username |-> "suzuki", login_time |-> "2024-01-15 09:45:00"]]

Counters ==
    [k \in {"counter:page_views", "counter:user_registrations", "counter:sales_today",
            "counter:active_sessions"} |->
        IF k = "counter:page_views" THEN 1250
        ELSE IF k = "counter:user_registrations" THEN 89
        ELSE IF k = "counter:sales_today" THEN 15
        ELSE 3]

Categories == <<"electronics", "kitchen", "fashion", "sports", "books_media">>

SearchTerms == <<"notebook_pc", "coffee_maker", "wireless_earphones", "business_bag",
                 "sneakers">>

\* json.dumps(profile, ensure_ascii=False) of the two profiles
UserProfiles ==
    [k \in {"profile:1", "profile:2"} |->
        IF k = "profile:1" THEN "json_profile_tanaka" ELSE "json_profile_sato"]

\* A Redis database: hashes, strings, sets and lists by key
EmptyStore == [hashes |-> <<>>, strings |-> <<>>, sets |-> <<>>, lists |-> <<>>]

\* r.hset(key, mapping=data): the fields of the mapping are written over
\* the hash, its other fields stay.
Hset(store, key, data) ==
    LET old == IF key \in DOMAIN store.hashes THEN store.hashes[key] ELSE <<>>
    IN [store EXCEPT !.hashes = (key :> (data @@ old)) @@ @]

\* r.set(key, value)
Set(store, key, value) == [store EXCEPT !.strings = (key :> value) @@ @]

\* r.sadd(key, member)
Sadd(store, key, member) ==
    LET old == IF key \in DOMAIN store.sets THEN store.sets[key] ELSE {}
    IN [store EXCEPT !.sets = (key :> (old \cup {member})) @@ @]

\* r.lpush replaced by a write of the whole list
LpushOverwrites(store, key, value) ==
    [store EXCEPT !.lists = (key :> <<value>>) @@ @]

\* r.lpush(key, value) puts the value at the head of the list.
Lpush(store, key, value) ==
    LET old == IF key \in DOMAIN store.lists THEN store.lists[key] ELSE <<>>
    IN [store EXCEPT !.lists = (key :> (<<value>> \o old)) @@ @]

\* for key, value in mapping.items(): write(store, key, value), in any order
\* of the keys (the writes go to different keys).
RECURSIVE ForItems(_, _, _, _)
ForItems(store, mapping, keys, kind) ==
    IF keys = {} THEN store
    ELSE LET k == CHOOSE x \in keys : TRUE
         IN ForItems(IF kind = "hset" THEN Hset(store, k, mapping[k])
                     ELSE Set(store, k, mapping[k]),
                     mapping, keys \ {k}, kind)

\* for v in values: write(store, key, v), in the order of the list
RECURSIVE ForEach(_, _, _, _, _)
ForEach(store, key, values, i, kind) ==
    IF i > Len(values) THEN store
    ELSE ForEach(IF kind = "sadd" THEN Sadd(store, key, values[i])
                 ELSE Lpush(store, key, values[i]),
                 key, values, i + 1, kind)

\* The five loops of setup_redis_data, in the order of the code
Sections == <<"sessions", "counters", "categories", "search_terms", "user_profiles">>

Section(store, name) ==
    IF name = "sessions" THEN ForItems(store, Sessions, DOMAIN Sessions, "hset")
    ELSE IF name = "counters" THEN ForItems(store, Counters, DOMAIN Counters, "set")
    ELSE IF name = "categories" THEN ForEach(store, "categories:all", Categories, 1, "sadd")
    ELSE IF name = "search_terms" THEN ForEach(store, "search:recent", SearchTerms, 1, "lpush")
    ELSE ForItems(store, UserProfiles, DOMAIN UserProfiles, "set")

\* setup_redis_data on a store: the first "done" loops run; the function
\* returns True when all have run and raises (the connection fails) at the
\* first command of the next loop otherwise.
RECURSIVE RunSections(_, _, _)
RunSections(store, i, done) ==
    IF i > done THEN store ELSE RunSections(Section(store, Sections[i]), i + 1, done)

SetupRedisDataBody(store, done) ==
    [store |-> RunSections(store, 1, done), raised |-> done < Len(Sections)]

\* The blog articles and the product points, by id
Articles == 1..5

Products == 1..5

FreshSetup ==
    [op |-> "setup", pc |-> "idle", started |-> <<>>, completed |-> <<>>, result |-> "none",
     store |-> EmptyStore, articles |-> {}, points |-> {}, mains |-> 0, redis_runs |-> 0,
     redis_failed |-> FALSE]

\* main is called: nothing has been loaded by this run yet.
MainStart ==
    /\ IF setup.op = "none" THEN TRUE ELSE setup.pc \in {"idle", "done"}
    /\ (IF setup.op = "none" THEN 0 ELSE setup.mains) < MaxSetupRuns
    /\ setup' = [(IF setup.op = "none" THEN FreshSetup ELSE setup) EXCEPT
                    !.pc = "redis", !.started = <<>>, !.completed = <<>>,
                    !.result = "none", !.mains = @ + 1]
    /\ UNCHANGED <<now, ttlInclusive, cache, pc, last, shown, ex, answer, mcall, round,
                   backends, session>>

\* A main that passes over the exception of a loader and goes on.
FailsButGoesOn(s) ==
    [s EXCEPT !.pc = IF @ = "redis" THEN "elasticsearch"
                     ELSE IF @ = "elasticsearch" THEN "qdrant" ELSE "done",
              !.result = IF s.pc = "qdrant" THEN "False" ELSE @]

\* The except branch of main: return False
Fails(s) == [s EXCEPT !.pc = "done", !.result = "False"]

\* main calls setup_redis_data
SetupRedisData(done) ==
    /\ setup.op = "setup" /\ setup.pc = "redis"
    /\ LET r == SetupRedisDataBody(setup.store, done)
           s == [setup EXCEPT !.started = Append(@, "Redis"), !.store = r.store]
       IN setup' = IF r.raised THEN Fails([s EXCEPT !.redis_failed = TRUE])
                   ELSE [s EXCEPT !.completed = Append(@, "Redis"),
                                  !.redis_runs = @ + 1, !.pc = "elasticsearch"]
    /\ UNCHANGED <<now, ttlInclusive, cache, pc, last, shown, ex, answer, mcall, round,
                   backends, session>>

\* main calls setup_elasticsearch_data.  The responses of the requests are
\* not looked at: when the server answers with an error status the function
\* returns True all the same ("refused"); it raises when a request cannot
\* be sent ("exc").
SetupElasticsearchData(outcome) ==
    /\ setup.op = "setup" /\ setup.pc = "elasticsearch"
    /\ LET s == [setup EXCEPT !.started = Append(@, "Elasticsearch")]
       IN setup' = IF outcome = "exc" THEN Fails(s)
                   ELSE [s EXCEPT !.completed = Append(@, "Elasticsearch"),
                                  !.articles = IF outcome = "ok" THEN Articles ELSE @,
                                  !.pc = "qdrant"]
    /\ UNCHANGED <<now, ttlInclusive, cache, pc, last, shown, ex, answer, mcall, round,
                   backends, session>>

\* main calls setup_qdrant_data: the collection is deleted (a failure of
\* the deletion is passed over), created and filled; create_collection or
\* upsert raises when the server cannot be reached ("exc") or after the
\* deletion went through ("exc_after_delete").
SetupQdrantData(outcome) ==
    /\ setup.op = "setup" /\ setup.pc = "qdrant"
    /\ LET s == [setup EXCEPT !.started = Append(@, "Qdrant")]
       IN setup' = IF outcome = "exc" THEN Fails(s)
                   ELSE IF outcome = "exc_after_delete" THEN Fails([s EXCEPT !.points = {}])
                   ELSE [s EXCEPT !.completed = Append(@, "Qdrant"), !.points = Products,
                                  !.pc = "done", !.result = "True"]
    /\ UNCHANGED <<now, ttlInclusive, cache, pc, last, shown, ex, answer, mcall, round,
                   backends, session>>

NextSetup ==
    \/ MainStart
    \/ \E done \in 0..Len(Sections) : SetupRedisData(done)
    \/ \E outcome \in {"ok", "refused", "exc"} : SetupElasticsearchData(outcome)
    \/ \E outcome \in {"ok", "exc", "exc_after_delete"} : SetupQdrantData(outcome)

SpecSetup == Init /\ [][NextSetup]_vars

(***************************************************************************)
(* Properties of setup_test_data (checked under SpecSetup)                 *)
(***************************************************************************)
LoaderOrder == <<"Redis", "Elasticsearch", "Qdrant">>

IsPrefix(s, t) == Len(s) <= Len(t) /\ SubSeq(t, 1, Len(s)) = s

\* C29: main starts the loaders in the order Redis, Elasticsearch, Qdrant,
\* each after the one before it has completed; once a loader has raised no
\* other loader is started and main returns False; main returns True exactly
\* when all three loaders have completed.
C29_LoadersInOrder ==
    setup.op = "setup" =>
        /\ IsPrefix(setup.started, LoaderOrder)
        /\ IsPrefix(setup.completed, setup.started)
        /\ Len(setup.completed) < Len(setup.started) =>
               /\ Len(setup.started) = Len(setup.completed) + 1
               /\ setup.pc = "done"
               /\ setup.result = "False"
        /\ setup.pc = "done" =>
               /\ setup.result \in {"True", "False"}
               /\ setup.result = "True" <=> setup.completed = LoaderOrder
        /\ setup.pc # "done" => setup.result = "none"

\* The second loader has raised: the third was not started and main
\* returned False.
C29_Witness ==
    /\ setup.op = "setup"
    /\ setup.pc = "done"
    /\ setup.started = <<"Redis", "Elasticsearch">>
    /\ setup.completed = <<"Redis">>
    /\ setup.result = "False"

RecentSearches(store) ==
    IF "search:recent" \in DOMAIN store.lists THEN store.lists["search:recent"] ELSE <<>>

\* The five terms as one run leaves them at the head of the list
PushedOnce == <<"sneakers", "business_bag", "wireless_earphones", "coffee_maker",
                "notebook_pc">>

RECURSIVE Repeated(_, _)
Repeated(s, k) == IF k = 0 THEN <<>> ELSE s \o Repeated(s, k - 1)

\* C30: after one or more completed runs of setup_redis_data the session
\* hashes, the counters, the categories set and the profile values are what
\* one run leaves; the list search:recent grows by the five search terms
\* with every run, so after k runs on an empty store its length is 5k.
C30_IdempotentButList ==
    (setup.op = "setup" /\ setup.redis_runs >= 1) =>
        /\ setup.store.hashes = Sessions
        /\ setup.store.strings = Counters @@ UserProfiles
        /\ DOMAIN setup.store.sets = {"categories:all"}
        /\ setup.store.sets["categories:all"] = {Categories[i] : i \in DOMAIN Categories}
        /\ Cardinality(setup.store.sets["categories:all"]) = 5
        /\ ~setup.redis_failed =>
               /\ Len(RecentSearches(setup.store)) = 5 * setup.redis_runs
               /\ RecentSearches(setup.store) = Repeated(PushedOnce, setup.redis_runs)

\* setup_redis_data has completed twice on a store that was empty: the
\* list holds ten terms.
C30_Witness ==
    /\ setup.op = "setup"
    /\ setup.redis_runs = 2
    /\ ~setup.redis_failed
    /\ Len(RecentSearches(setup.store)) = 10
    /\ DOMAIN setup.store.hashes = DOMAIN Sessions

====
